---- MODULE Spec2Model ----
(***************************************************************************)
(* Wallet-data aggregation engine of src/services/solanaService.ts:        *)
(* the resilience primitives (withRetry, withTimeout), the native price    *)
(* cache (fetchSolPrice), the token price cache (fetchDexScreenerData)     *)
(* and the orchestrator fetchWalletData.                                   *)
(*                                                                         *)
(* The specifications that share the module:                               *)
(*   Spec      - runs of fetchWalletData (LiveSpec adds the timers'        *)
(*               fairness);                                                *)
(*   RetrySpec - one call of withRetry on an arbitrary operation;          *)
(*   DexSpec   - calls of fetchDexScreenerData on the shared cache          *)
(*               (DexAgeSpec records when each entry was stored);          *)
(*   TokSpec   - one call of fetchTokenBalances;                           *)
(*   NftSpec   - calls of fetchNFTs;                                       *)
(*   TxSpec    - one call of fetchTransactions;                            *)
(*   HistSpec  - one call of fetchBalanceHistory;                          *)
(*   StakeSpec - one call of fetchStakedTokens;                            *)
(*   DexRaceSpec - concurrent calls of fetchDexScreenerData.               *)
(***************************************************************************)
EXTENDS Integers, Sequences, FiniteSets, TLC

VARIABLES
    \* ---- fetchWalletData run -------------------------------------------
    pc,               \* position of the run: Idle, Start, Phase1, Sleep1, Phase2, Sleep2, Phase3, Assembled, Failed
    address,          \* the `address` parameter (raw at Start, sanitised afterwards)
    clock,            \* Date.now()
    runs,             \* number of runs invoked so far
    cachedSolPrice,   \* module-level cache of fetchSolPrice
    solPriceTimestamp,
    balState,         \* withRetry(fetchSolBalance): idle, inflight, backoff, fulfilled, rejected
    balAttempt,       \* its loop variable `attempt`
    priceState,       \* fetchSolPrice(): idle, inflight, cached, ok, malformed, threw
    p1,               \* withTimeout(Promise.all([...]), 15000, 'Phase1'): idle, pending, fulfilled, rejected, timeout
    solBalance,       \* Promise.all slot 0, then the destructured local
    solPriceUsd,      \* Promise.all slot 1, then the destructured local
    tokState,         \* withRetry(fetchTokenBalances): idle, inflight, backoff, fulfilled, rejected
    tokAttempt,
    p2,               \* withTimeout(..., 30000, 'Tokens')
    tokens,           \* local `tokens`
    op,               \* Phase 3: state of each underlying sub-fetch
    w,                \* Phase 3: settlement of each withTimeout wrapper
    snapshot,         \* <<the WalletData returned>>, or <<>> while none is
    error,            \* the error thrown to the caller, or <<>> while none is
    calls,            \* network operations issued by this run
    delivered,        \* outcomes delivered to the caller by this run, in order
    \* ---- withRetry on its own ------------------------------------------
    rState,           \* idle, calling, sleeping, returned, thrown
    rAttempt,         \* loop variable `attempt`
    rMaxRetries,      \* parameter maxRetries
    rBaseDelay,       \* parameter baseDelay
    rErrors,          \* the errors of the invocations made so far, in order
    rSleeps,          \* the delays slept so far, in order
    rInvocations,     \* number of times fn() was invoked
    rResult,          \* value returned or error thrown
    \* ---- fetchDexScreenerData ------------------------------------------
    dexCache,         \* Map<string, DexScreenerToken>
    dexCacheTimestamp,
    dexClock,         \* Date.now() as seen by the cache
    dpc,              \* per call: idle, await, done
    dMints,           \* per call: parameter `mints`
    dNow,             \* per call: local `now`
    dUncached,        \* per call: local `uncached`
    dI,               \* per call: loop variable `i`
    dResult,          \* per call: local `result`
    dLog,             \* per call: how each batch so far ended: array, badshape, throws
    dPairs,           \* per call: the array payload of the batch answered last
    dCalls,           \* number of calls of fetchDexScreenerData so far
    dStoredAt,        \* history: mint -> Date.now() when its dexCache entry was last set (DexAgeSpec)
    \* ---- fetchTokenBalances --------------------------------------------
    tpc,              \* idle, scan1, backoff1, pace, scan2, backoff2, dex, helius, returned, retry, rejected
    tAcc1,            \* tokenAccounts.value
    tAcc2,            \* token2022Accounts.value
    tSorted,          \* local `sortedAccounts`
    tDex,             \* local `dexData`
    tHelius,          \* local `heliusMeta`
    tFail,            \* the calls of this fetch that failed: scan1, scan2, dex, helius
    tOut,             \* the list returned, <<>> while none is
    tAttempt,         \* `attempt` of the withRetry around the scan in flight
    tOuter,           \* `attempt` of withRetry(() => fetchTokenBalances(address))
    tErr,             \* <<message>> of the error the invocation rejected with
    tLog,             \* scans issued and settled since the run began, in order
    \* ---- fetchNFTs -----------------------------------------------------
    npc,              \* idle, das, fallback, returned, rejected
    nDas,             \* how the getAssetsByOwner query ended: none, items, noitems, malformed, rejected
    nItems,           \* response.result.items
    nAccounts,        \* tokenAccounts.value of the fallback scan
    nCalls,           \* the provider calls issued by fetchNFTs so far, in order
    nOut,             \* the list returned, <<>> while none is
    \* ---- fetchTransactions ---------------------------------------------
    xpc,              \* idle, listing, details, sleep, returned, rejected
    xSigs,            \* local `signatures`
    xI,               \* loop variable `i`
    xSettled,         \* how the detail fetch of each signature dealt with so far settled
    xInfos,           \* local `txInfos`
    \* ---- fetchBalanceHistory -------------------------------------------
    hpc,              \* idle, listing, details, sleep, returned
    hBalance,         \* parameter `currentBalanceLamports`
    hSigs,            \* local `signatures`
    hI,               \* loop variable `i` of the batch loop
    hParsed,          \* local `parsed`
    hFail,            \* the provider calls of this fetch that failed: listing, detail
    hOut,             \* the series returned, <<>> while none is
    \* ---- fetchStakedTokens ---------------------------------------------
    spc,              \* idle, stake, config, price, returned
    sPrincipal,       \* principalRaw of the stake account
    sSharePrice,      \* local `sharePrice`, scaled by 1e9
    sPriceUsd,        \* local `priceUsd`, <<>> while undefined
    sFail,            \* the steps of this fetch that failed
    sOut              \* the list returned

orchVars == <<pc, address, clock, runs, cachedSolPrice, solPriceTimestamp,
              balState, balAttempt, priceState, p1, solBalance, solPriceUsd,
              tokState, tokAttempt, p2, tokens, op, w, snapshot, error,
              calls, delivered>>
retryVars == <<rState, rAttempt, rMaxRetries, rBaseDelay, rErrors, rSleeps,
               rInvocations, rResult>>
dexVars == <<dexCache, dexCacheTimestamp, dexClock, dpc, dMints, dNow,
             dUncached, dI, dResult, dLog, dPairs, dCalls, dStoredAt>>
tokVars == <<tpc, tAcc1, tAcc2, tSorted, tDex, tHelius, tFail, tOut,
            tAttempt, tOuter, tErr, tLog>>
nftVars == <<npc, nDas, nItems, nAccounts, nCalls, nOut>>
txVars == <<xpc, xSigs, xI, xSettled, xInfos>>
histVars == <<hpc, hBalance, hSigs, hI, hParsed, hFail, hOut>>
stakeVars == <<spc, sPrincipal, sSharePrice, sPriceUsd, sFail, sOut>>
vars == <<orchVars, retryVars, dexVars, tokVars, nftVars, txVars, histVars,
          stakeVars>>

\* what the actions of one component leave alone
notOrch == <<retryVars, dexVars, tokVars, nftVars, txVars, histVars,
             stakeVars>>
notRetry == <<orchVars, dexVars, tokVars, nftVars, txVars, histVars,
              stakeVars>>
notDex == <<orchVars, retryVars, tokVars, nftVars, txVars, histVars,
            stakeVars>>
notTok == <<orchVars, retryVars, dexVars, nftVars, txVars, histVars,
            stakeVars>>
notNft == <<orchVars, retryVars, dexVars, tokVars, txVars, histVars,
            stakeVars>>
notTx == <<orchVars, retryVars, dexVars, tokVars, nftVars, histVars,
           stakeVars>>
notHist == <<orchVars, retryVars, dexVars, tokVars, nftVars, txVars,
             stakeVars>>
notStake == <<orchVars, retryVars, dexVars, tokVars, nftVars, txVars,
              histVars>>

--------------------------------------------------------------------------
(* Generic helpers *)

Range(s) == {s[i] : i \in 1..Len(s)}

RECURSIVE SeqSum(_)
SeqSum(s) == IF s = <<>> THEN 0 ELSE Head(s) + SeqSum(Tail(s))

\* s.includes(pat) on messages written as sequences of words
Includes(s, pat) ==
    \E i \in 0..(Len(s) - Len(pat)) :
        \A j \in 1..Len(pat) : s[i + j] = pat[j]

RECURSIVE Pow2(_)
Pow2(n) == IF n = 0 THEN 1 ELSE 2 * Pow2(n - 1)

--------------------------------------------------------------------------
(* withRetry: classification of an error and backoff delay (lines 51-76) *)

DEFAULT_MAX_RETRIES == 2
DEFAULT_BASE_DELAY == 1500

\* error messages, written word by word
Err429 == <<"429", "Too", "Many", "Requests">>
ErrTooMany == <<"Too", "many", "requests">>
ErrServer == <<"Server", "responded", "with", "503">>
ErrTimeout == <<"request", "timeout">>
ErrETIMEDOUT == <<"connect", "ETIMEDOUT">>
ErrInvalidParam == <<"Invalid", "param">>
ErrNetwork == <<"Network", "request", "failed">>
ErrTooManyUpper == <<"Too", "Many", "Requests">>

Is429(msg) ==
    \/ Includes(msg, <<"429">>)
    \/ Includes(msg, <<"Too", "many", "requests">>)
    \/ Includes(msg, <<"Server", "responded", "with">>)

IsTimeoutMsg(msg) ==
    \/ Includes(msg, <<"timeout">>)
    \/ Includes(msg, <<"ETIMEDOUT">>)

\* mutant: every failure is retried while attempts remain
ShouldRetry_Always(msg, attempt, maxRetries) == attempt < maxRetries

\* the guard of line 66
ShouldRetry(msg, attempt, maxRetries) ==
    (Is429(msg) \/ IsTimeoutMsg(msg)) /\ attempt < maxRetries

\* mutant: a constant delay instead of an exponential one
BackoffDelay_Constant(baseDelay, attempt) == baseDelay

\* line 67
BackoffDelay(baseDelay, attempt) == baseDelay * Pow2(attempt)

\* withTimeout's rejection (line 84)
TimeoutError(label) == <<label, "Timed", "out", "after">>

--------------------------------------------------------------------------
(* Identifier sanitisation and validation (lines 698-709) *)

PUBLIC_KEY_LENGTH == 2   \* decoded key length, scaled down from 32 bytes

Base58Chars == {"A", "b"}
Whitespace == {" ", "\n"}
OtherChars == {"0"}      \* '0' is not in the base-58 alphabet

IsBase58(c) == c \in Base58Chars

RECURSIVE TrimLeft(_)
TrimLeft(s) ==
    IF s # <<>> /\ Head(s) \in Whitespace THEN TrimLeft(Tail(s)) ELSE s

RECURSIVE TrimRight(_)
TrimRight(s) ==
    IF s # <<>> /\ s[Len(s)] \in Whitespace
    THEN TrimRight(SubSeq(s, 1, Len(s) - 1)) ELSE s

Trim(s) == TrimRight(TrimLeft(s))

\* mutant: only the surrounding whitespace is stripped
Sanitise_TrimOnly(s) == Trim(s)

\* address.trim().replace(/[^1-9A-HJ-NP-Za-km-z]/g, '')
Sanitise(s) == SelectSeq(Trim(s), IsBase58)

\* new PublicKey(s) does not throw: base-58 decodes to PUBLIC_KEY_LENGTH bytes
IsPublicKey(s) ==
    /\ \A i \in 1..Len(s) : IsBase58(s[i])
    /\ Len(s) = PUBLIC_KEY_LENGTH

GoodKey == [i \in 1..PUBLIC_KEY_LENGTH |-> IF i = 1 THEN "A" ELSE "b"]

\* the identifiers a caller passes in
Addresses ==
    { GoodKey,
      GoodKey \o <<"\n">>,
      <<" ">> \o GoodKey,
      <<Head(GoodKey), "0">> \o Tail(GoodKey),
      Tail(GoodKey),
      GoodKey \o <<"A">>,
      <<"0", " ">>,
      <<>> }

InvalidAddressError == <<"Invalid", "Solana", "address">>

--------------------------------------------------------------------------
(* Values the providers can answer with *)

LAMPORTS_PER_SOL == 1000000000
SOL_PRICE_TTL == 60000
FALLBACK_SOL_PRICE == 100

MaxRuns == 2             \* runs of fetchWalletData in one behaviour
StartTime == 1000000     \* Date.now() when the module is loaded

\* time that may pass between two runs, beyond SOL_PRICE_TTL
Elapsed == 2 * SOL_PRICE_TTL

\* getBalance replies, in lamports
BalanceReplies == {0, 2 * LAMPORTS_PER_SOL}
\* json.solana.usd of a well-formed price reply
PriceReplies == {150}
\* errors of an RPC call: one transient, one not
RpcErrors == {Err429, ErrNetwork}

\* fetchTokenBalances results (the fields the orchestrator reads)
TokenLists ==
    { <<>>,
      << [mint |-> "m1", valueUsd |-> 40], [mint |-> "m2"] >> }
NftLists == { << [mint |-> "n1"] >> }
TxLists == { << [signature |-> "s1"] >> }
StakedLists ==
    { << [symbol |-> "SKR", valueUsd |-> 7] >>,
      << [symbol |-> "SKR"] >> }
\* mutant: the series ends with the balance before the newest transaction
HistoryLists_WithoutCurrent(balanceLamports) ==
    { << 5 >> }

\* fetchBalanceHistory(address, balanceLamports) results: the series ends
\* with the current balance (lines 664, 686, 690)
HistoryLists(balanceLamports) ==
    { << 5, balanceLamports \div LAMPORTS_PER_SOL >> }

Subs == {"nfts", "transactions", "history", "staking"}
\* the sub-fetches that have no catch-all of their own
RejectingSubs == {"nfts", "transactions"}

SubResults(k, balanceLamports) ==
    CASE k = "nfts" -> NftLists
      [] k = "transactions" -> TxLists
      [] k = "history" -> HistoryLists(balanceLamports)
      [] k = "staking" -> StakedLists

Pending == [status |-> "pending", value |-> <<>>]
NotStarted == [status |-> "idle", value |-> <<>>]

--------------------------------------------------------------------------
(* fetchWalletData (lines 698-789) *)

\* t.valueUsd ?? 0
ValueOrZero(t) == IF "valueUsd" \in DOMAIN t THEN t.valueUsd ELSE 0

\* list.reduce((sum, t) => sum + (t.valueUsd ?? 0), 0)
RECURSIVE ReduceValueUsd(_)
ReduceValueUsd(list) ==
    IF list = <<>> THEN 0
    ELSE ValueOrZero(Head(list)) + ReduceValueUsd(Tail(list))

\* mutant: the staked value is left out of the total
TotalValueUsd_NoStaked(bal, price, toks, staked) ==
    bal * price + ReduceValueUsd(toks)

\* lines 767-771
TotalValueUsd(bal, price, toks, staked) ==
    bal * price + ReduceValueUsd(toks) + ReduceValueUsd(staked)

\* lines 755-765: a fulfilled result replaces the empty default
Slice(r) == IF r.status = "fulfilled" THEN r.value ELSE <<>>

\* lines 767-784
Assemble(ws) ==
    [ address |-> address,
      solBalance |-> solBalance,
      solPriceUsd |-> solPriceUsd,
      totalValueUsd |->
          TotalValueUsd(solBalance, solPriceUsd, tokens, Slice(ws["staking"])),
      tokens |-> tokens,
      nfts |-> Slice(ws["nfts"]),
      transactions |-> Slice(ws["transactions"]),
      stakedTokens |-> Slice(ws["staking"]),
      balanceHistory |-> Slice(ws["history"]),
      lastUpdated |-> clock ]

\* fetchSolPrice, line 611
PriceCacheFresh ==
    cachedSolPrice > 0 /\ clock - solPriceTimestamp < SOL_PRICE_TTL

PriceResolved(st) == st \in {"cached", "ok", "malformed", "threw"}

Terminal == {"Assembled", "Failed"}

run1Vars == <<balState, balAttempt, priceState, p1, solBalance, solPriceUsd>>
run2Vars == <<tokState, tokAttempt, p2, tokens>>
run3Vars == <<op, w>>
outVars == <<snapshot, error, delivered>>
cacheVars == <<cachedSolPrice, solPriceTimestamp>>

OrchInit ==
    /\ pc = "Idle"
    /\ address = <<>>
    /\ clock = StartTime
    /\ runs = 0
    /\ cachedSolPrice = 0
    /\ solPriceTimestamp = 0
    /\ balState = "idle"
    /\ balAttempt = 0
    /\ priceState = "idle"
    /\ p1 = "idle"
    /\ solBalance = 0
    /\ solPriceUsd = 0
    /\ tokState = "idle"
    /\ tokAttempt = 0
    /\ p2 = "idle"
    /\ tokens = <<>>
    /\ op = [k \in Subs |-> "idle"]
    /\ w = [k \in Subs |-> NotStarted]
    /\ snapshot = <<>>
    /\ error = <<>>
    /\ calls = {}
    /\ delivered = <<>>

\* a caller invokes fetchWalletData(a)
Invoke ==
    /\ pc \in {"Idle"} \cup Terminal
    /\ runs < MaxRuns
    /\ \E a \in Addresses : address' = a
    /\ runs' = runs + 1
    /\ pc' = "Start"
    /\ balState' = "idle"
    /\ balAttempt' = 0
    /\ priceState' = "idle"
    /\ p1' = "idle"
    /\ solBalance' = 0
    /\ solPriceUsd' = 0
    /\ tokState' = "idle"
    /\ tokAttempt' = 0
    /\ p2' = "idle"
    /\ tokens' = <<>>
    /\ op' = [k \in Subs |-> "idle"]
    /\ w' = [k \in Subs |-> NotStarted]
    /\ snapshot' = <<>>
    /\ error' = <<>>
    /\ calls' = {}
    /\ delivered' = <<>>
    /\ UNCHANGED <<clock, cacheVars>>
    /\ UNCHANGED notOrch

\* time passes between two runs
Tick ==
    /\ pc \in Terminal
    /\ runs < MaxRuns
    /\ clock < StartTime + Elapsed
    /\ clock' = clock + Elapsed
    /\ UNCHANGED <<pc, address, runs, cacheVars, run1Vars, run2Vars, run3Vars,
                   outVars, calls>>
    /\ UNCHANGED notOrch

\* throw out of fetchWalletData
Throw(msg) ==
    /\ pc' = "Failed"
    /\ error' = msg
    /\ delivered' = Append(delivered, "error")
    /\ UNCHANGED snapshot

\* lines 700-720, up to the first await: sanitise, validate, start Phase 1
EnterPhase1 ==
    /\ pc = "Start"
    /\ address' = Sanitise(address)
    /\ IF ~IsPublicKey(Sanitise(address))
       THEN /\ Throw(InvalidAddressError)
            /\ UNCHANGED <<run1Vars, calls>>
       ELSE /\ pc' = "Phase1"
            /\ balState' = "inflight"
            /\ balAttempt' = 0
            /\ p1' = "pending"
            /\ solBalance' = 0
            /\ IF PriceCacheFresh
               THEN /\ priceState' = "cached"
                    /\ solPriceUsd' = cachedSolPrice
                    /\ calls' = {"getBalance"}
               ELSE /\ priceState' = "inflight"
                    /\ solPriceUsd' = 0
                    /\ calls' = {"getBalance", "solPrice"}
            /\ UNCHANGED outVars
    /\ UNCHANGED <<clock, runs, cacheVars, run2Vars, run3Vars>>
    /\ UNCHANGED notOrch

\* Promise.all of Phase 1 fulfils once both slots are filled; the run then
\* logs and sleeps (lines 713-723)
Phase1Join(bs, ps) ==
    IF p1 = "pending" /\ bs = "fulfilled" /\ PriceResolved(ps)
    THEN p1' = "fulfilled" /\ pc' = "Sleep1"
    ELSE UNCHANGED <<p1, pc>>

\* conn.getBalance resolves (lines 96-102, inside withRetry)
BalanceReply ==
    /\ balState = "inflight"
    /\ \E lamports \in BalanceReplies :
        solBalance' = IF p1 = "pending"
                      THEN lamports \div LAMPORTS_PER_SOL ELSE solBalance
    /\ balState' = "fulfilled"
    /\ balAttempt' = 0          \* withRetry has returned
    /\ Phase1Join("fulfilled", priceState)
    /\ UNCHANGED <<address, clock, runs, cacheVars, priceState,
                   solPriceUsd, run2Vars, run3Vars, outVars, calls>>
    /\ UNCHANGED notOrch

\* mutant: a failed balance fetch is swallowed and counts as balance 0
BalanceError_Swallowed ==
    /\ balState = "inflight"
    /\ \E msg \in RpcErrors :
        IF ShouldRetry(msg, balAttempt, DEFAULT_MAX_RETRIES)
        THEN /\ balState' = "backoff"
             /\ UNCHANGED <<balAttempt, p1, pc>>
        ELSE /\ balState' = "rejected"
             /\ balAttempt' = 0
             /\ Phase1Join("fulfilled", priceState)
    /\ UNCHANGED <<address, clock, runs, cacheVars, priceState, solBalance,
                   solPriceUsd, run2Vars, run3Vars, outVars, calls>>
    /\ UNCHANGED notOrch

\* conn.getBalance rejects: withRetry backs off or rethrows (lines 61-72)
BalanceError ==
    /\ balState = "inflight"
    /\ \E msg \in RpcErrors :
        IF ShouldRetry(msg, balAttempt, DEFAULT_MAX_RETRIES)
        THEN /\ balState' = "backoff"
             /\ UNCHANGED <<balAttempt, p1, pc, outVars>>
        ELSE /\ balState' = "rejected"
             /\ balAttempt' = 0          \* withRetry has thrown
             /\ IF p1 = "pending"
                THEN p1' = "rejected" /\ Throw(msg)
                ELSE UNCHANGED <<p1, pc, outVars>>
    /\ UNCHANGED <<address, clock, runs, cacheVars, priceState,
                   solBalance, solPriceUsd, run2Vars, run3Vars, calls>>
    /\ UNCHANGED notOrch

\* the backoff timer of withRetry fires: next attempt (lines 58, 69)
BalanceBackoffDone ==
    /\ balState = "backoff"
    /\ balState' = "inflight"
    /\ balAttempt' = balAttempt + 1
    /\ UNCHANGED <<pc, address, clock, runs, cacheVars, priceState, p1,
                   solBalance, solPriceUsd, run2Vars, run3Vars, outVars, calls>>
    /\ UNCHANGED notOrch

\* the price provider answers with a positive price (lines 618-624)
PriceReply ==
    /\ priceState = "inflight"
    /\ \E price \in PriceReplies :
        /\ cachedSolPrice' = price
        /\ solPriceUsd' = IF p1 = "pending" THEN price ELSE solPriceUsd
    /\ solPriceTimestamp' = clock
    /\ priceState' = "ok"
    /\ Phase1Join(balState, "ok")
    /\ UNCHANGED <<address, clock, runs, balState, balAttempt, solBalance,
                   run2Vars, run3Vars, outVars, calls>>
    /\ UNCHANGED notOrch

\* the answer has no solana.usd: price = 0 is returned (lines 619-624)
PriceMalformed ==
    /\ priceState = "inflight"
    /\ priceState' = "malformed"
    /\ solPriceUsd' = IF p1 = "pending" THEN 0 ELSE solPriceUsd
    /\ Phase1Join(balState, "malformed")
    /\ UNCHANGED <<address, clock, runs, cacheVars, balState, balAttempt,
                   solBalance, run2Vars, run3Vars, outVars, calls>>
    /\ UNCHANGED notOrch

\* fetch or res.json() throws: cachedSolPrice || 100 is returned (line 626)
PriceThrows ==
    /\ priceState = "inflight"
    /\ priceState' = "threw"
    /\ solPriceUsd' =
         IF p1 # "pending" THEN solPriceUsd
         ELSE IF cachedSolPrice # 0 THEN cachedSolPrice ELSE FALLBACK_SOL_PRICE
    /\ Phase1Join(balState, "threw")
    /\ UNCHANGED <<address, clock, runs, cacheVars, balState, balAttempt,
                   solBalance, run2Vars, run3Vars, outVars, calls>>
    /\ UNCHANGED notOrch

\* the 15 s timer of withTimeout(..., 'Phase1') fires first (line 84)
Phase1Timeout ==
    /\ pc = "Phase1"
    /\ p1 = "pending"
    /\ p1' = "timeout"
    /\ Throw(TimeoutError("[Phase1]"))
    /\ UNCHANGED <<address, clock, runs, cacheVars, balState, balAttempt,
                   priceState, solBalance, solPriceUsd, run2Vars, run3Vars, calls>>
    /\ UNCHANGED notOrch

\* sleep(500) is over: Phase 2 starts (lines 723-732)
Sleep1Done ==
    /\ pc = "Sleep1"
    /\ pc' = "Phase2"
    /\ tokState' = "inflight"
    /\ tokAttempt' = 0
    /\ p2' = "pending"
    /\ tokens' = <<>>
    /\ calls' = calls \cup {"tokens"}
    /\ UNCHANGED <<address, clock, runs, cacheVars, run1Vars, run3Vars, outVars>>
    /\ UNCHANGED notOrch

\* fetchTokenBalances resolves (line 729)
TokensReply ==
    /\ tokState = "inflight"
    /\ tokState' = "fulfilled"
    /\ tokAttempt' = 0          \* withRetry has returned
    /\ \E list \in TokenLists :
        IF p2 = "pending"
        THEN p2' = "fulfilled" /\ tokens' = list /\ pc' = "Sleep2"
        ELSE UNCHANGED <<p2, tokens, pc>>
    /\ UNCHANGED <<address, clock, runs, cacheVars, run1Vars,
                   run3Vars, outVars, calls>>
    /\ UNCHANGED notOrch

\* mutant: a rejection of the token resolver is rethrown to the caller
TokensError_Fatal ==
    /\ tokState = "inflight"
    /\ \E msg \in RpcErrors :
        IF ShouldRetry(msg, tokAttempt, DEFAULT_MAX_RETRIES)
        THEN /\ tokState' = "backoff"
             /\ UNCHANGED <<tokAttempt, p2, pc, outVars>>
        ELSE /\ tokState' = "rejected"
             /\ tokAttempt' = 0
             /\ IF p2 = "pending"
                THEN p2' = "rejected" /\ Throw(msg)
                ELSE UNCHANGED <<p2, pc, outVars>>
    /\ UNCHANGED <<address, clock, runs, cacheVars, run1Vars,
                   tokens, run3Vars, calls>>
    /\ UNCHANGED notOrch

\* fetchTokenBalances rejects: withRetry backs off or rethrows, and the
\* rejection is swallowed by the catch of lines 733-735
TokensError ==
    /\ tokState = "inflight"
    /\ \E msg \in RpcErrors :
        IF ShouldRetry(msg, tokAttempt, DEFAULT_MAX_RETRIES)
        THEN /\ tokState' = "backoff"
             /\ UNCHANGED <<tokAttempt, p2, pc>>
        ELSE /\ tokState' = "rejected"
             /\ tokAttempt' = 0          \* withRetry has thrown
             /\ IF p2 = "pending"
                THEN p2' = "rejected" /\ pc' = "Sleep2"
                ELSE UNCHANGED <<p2, pc>>
    /\ UNCHANGED <<address, clock, runs, cacheVars, run1Vars,
                   tokens, run3Vars, outVars, calls>>
    /\ UNCHANGED notOrch

\* the backoff timer of withRetry(fetchTokenBalances) fires
TokensBackoffDone ==
    /\ tokState = "backoff"
    /\ tokState' = "inflight"
    /\ tokAttempt' = tokAttempt + 1
    /\ UNCHANGED <<pc, address, clock, runs, cacheVars, run1Vars, p2, tokens,
                   run3Vars, outVars, calls>>
    /\ UNCHANGED notOrch

\* mutant: the Phase-2 deadline is rethrown to the caller
Phase2Timeout_Fatal ==
    /\ pc = "Phase2"
    /\ p2 = "pending"
    /\ p2' = "timeout"
    /\ Throw(TimeoutError("[Tokens]"))
    /\ UNCHANGED <<address, clock, runs, cacheVars, run1Vars, tokState,
                   tokAttempt, tokens, run3Vars, calls>>
    /\ UNCHANGED notOrch

\* the 30 s timer of withTimeout(..., 'Tokens') fires first; the rejection
\* is swallowed by the catch of lines 733-735
Phase2Timeout ==
    /\ pc = "Phase2"
    /\ p2 = "pending"
    /\ p2' = "timeout"
    /\ pc' = "Sleep2"
    /\ UNCHANGED <<address, clock, runs, cacheVars, run1Vars, tokState,
                   tokAttempt, tokens, run3Vars, outVars, calls>>
    /\ UNCHANGED notOrch

\* sleep(500) is over: the four sub-fetches of Phase 3 start (lines 737-753)
Sleep2Done ==
    /\ pc = "Sleep2"
    /\ pc' = "Phase3"
    /\ op' = [k \in Subs |-> "inflight"]
    /\ w' = [k \in Subs |-> Pending]
    /\ calls' = calls \cup Subs
    /\ UNCHANGED <<address, clock, runs, cacheVars, run1Vars, run2Vars, outVars>>
    /\ UNCHANGED notOrch

AllSettled(ws) == \A k \in Subs : ws[k].status \notin {"idle", "pending"}

\* mutant: a fail-fast join (Promise.all), the first failure fails the run
Phase3Join_FailFast(ws) ==
    IF pc = "Phase3" /\ \E k \in Subs : ws[k].status \in {"rejected", "timeout"}
    THEN Throw(<<"sub-fetch", "failed">>)
    ELSE IF pc = "Phase3" /\ AllSettled(ws)
    THEN /\ pc' = "Assembled"
         /\ snapshot' = <<Assemble(ws)>>
         /\ delivered' = Append(delivered, "snapshot")
         /\ UNCHANGED error
    ELSE UNCHANGED <<pc, outVars>>

\* Promise.allSettled resolves once every wrapper has settled; the run then
\* assembles and returns the snapshot (lines 748-784)
Phase3Join(ws) ==
    IF pc = "Phase3" /\ AllSettled(ws)
    THEN /\ pc' = "Assembled"
         /\ snapshot' = <<Assemble(ws)>>
         /\ delivered' = Append(delivered, "snapshot")
         /\ UNCHANGED error
    ELSE UNCHANGED <<pc, outVars>>

\* mutant: a wrapper that settled is settled again by a later outcome
Settle_LastWins(k, r) == [w EXCEPT ![k] = r]

\* wrapper k settles with r unless it has settled before (lines 85-88)
Settle(k, r) == IF w[k].status = "pending" THEN [w EXCEPT ![k] = r] ELSE w

\* sub-fetch k resolves
SubReply ==
    /\ \E k \in Subs :
           /\ op[k] = "inflight"
           /\ op' = [op EXCEPT ![k] = "fulfilled"]
           /\ \E v \in SubResults(k, solBalance * LAMPORTS_PER_SOL) :
               /\ w' = Settle(k, [status |-> "fulfilled", value |-> v])
               /\ Phase3Join(Settle(k, [status |-> "fulfilled", value |-> v]))
           /\ UNCHANGED <<address, clock, runs, cacheVars, run1Vars, run2Vars, calls>>
    /\ UNCHANGED notOrch

\* sub-fetch k rejects (fetchNFTs, fetchTransactions)
SubError ==
    /\ \E k \in RejectingSubs :
           /\ op[k] = "inflight"
           /\ op' = [op EXCEPT ![k] = "rejected"]
           /\ w' = Settle(k, [status |-> "rejected", value |-> <<>>])
           /\ Phase3Join(Settle(k, [status |-> "rejected", value |-> <<>>]))
           /\ UNCHANGED <<address, clock, runs, cacheVars, run1Vars, run2Vars, calls>>
    /\ UNCHANGED notOrch

\* mutant: the staking sub-fetch is awaited without a deadline
SubTimeout_NoStakingTimer ==
    /\ \E k \in Subs \ {"staking"} :
           /\ pc = "Phase3"
           /\ w[k].status = "pending"
           /\ w' = Settle(k, [status |-> "timeout", value |-> <<>>])
           /\ Phase3Join(Settle(k, [status |-> "timeout", value |-> <<>>]))
           /\ UNCHANGED <<address, clock, runs, cacheVars, run1Vars, run2Vars, op, calls>>
    /\ UNCHANGED notOrch

\* the 15 s timer of wrapper k fires first (line 84)
SubTimeout ==
    /\ \E k \in Subs :
           /\ pc = "Phase3"
           /\ w[k].status = "pending"
           /\ w' = Settle(k, [status |-> "timeout", value |-> <<>>])
           /\ Phase3Join(Settle(k, [status |-> "timeout", value |-> <<>>]))
           /\ UNCHANGED <<address, clock, runs, cacheVars, run1Vars, run2Vars, op, calls>>
    /\ UNCHANGED notOrch

--------------------------------------------------------------------------
(* Idle components of the other specifications *)

RetryIdle ==
    /\ rState = "idle"
    /\ rAttempt = 0
    /\ rMaxRetries = DEFAULT_MAX_RETRIES
    /\ rBaseDelay = DEFAULT_BASE_DELAY
    /\ rErrors = <<>>
    /\ rSleeps = <<>>
    /\ rInvocations = 0
    /\ rResult = <<>>

DexCallers == {"c1", "c2"}

EmptyMap == [x \in {} |-> 0]

\* dStoredAt while the store times are not recorded
NotRecorded == [off |-> 0]

DexStart ==
    /\ dexCache = EmptyMap
    /\ dexCacheTimestamp = 0
    /\ dexClock = StartTime
    /\ dpc = [c \in DexCallers |-> "idle"]
    /\ dMints = [c \in DexCallers |-> <<>>]
    /\ dNow = [c \in DexCallers |-> 0]
    /\ dUncached = [c \in DexCallers |-> <<>>]
    /\ dI = [c \in DexCallers |-> 0]
    /\ dResult = [c \in DexCallers |-> EmptyMap]
    /\ dLog = [c \in DexCallers |-> <<>>]
    /\ dPairs = [c \in DexCallers |-> <<>>]
    /\ dCalls = 0

DexIdle == DexStart /\ dStoredAt = NotRecorded

TokIdle ==
    /\ tpc = "idle"
    /\ tAcc1 = <<>>
    /\ tAcc2 = <<>>
    /\ tSorted = <<>>
    /\ tDex = EmptyMap
    /\ tHelius = EmptyMap
    /\ tFail = {}
    /\ tOut = <<>>
    /\ tAttempt = 0
    /\ tOuter = 0
    /\ tErr = <<>>
    /\ tLog = <<>>

NftIdle ==
    /\ npc = "idle"
    /\ nDas = "none"
    /\ nItems = <<>>
    /\ nAccounts = <<>>
    /\ nCalls = <<>>
    /\ nOut = <<>>

TxIdle ==
    /\ xpc = "idle"
    /\ xSigs = <<>>
    /\ xI = 0
    /\ xSettled = <<>>
    /\ xInfos = <<>>

HistIdle ==
    /\ hpc = "idle"
    /\ hBalance = 0
    /\ hSigs = <<>>
    /\ hI = 0
    /\ hParsed = <<>>
    /\ hFail = {}
    /\ hOut = <<>>

StakeIdle ==
    /\ spc = "idle"
    /\ sPrincipal = 0
    /\ sSharePrice = 0
    /\ sPriceUsd = <<>>
    /\ sFail = {}
    /\ sOut = <<>>

OthersIdle == TokIdle /\ NftIdle /\ TxIdle /\ HistIdle /\ StakeIdle

--------------------------------------------------------------------------
(* Specification of fetchWalletData *)

Init == OrchInit /\ RetryIdle /\ DexIdle /\ OthersIdle

OrchNext ==
    \/ Invoke
    \/ Tick
    \/ EnterPhase1
    \/ BalanceReply
    \/ BalanceError
    \/ BalanceBackoffDone
    \/ PriceReply
    \/ PriceMalformed
    \/ PriceThrows
    \/ Phase1Timeout
    \/ Sleep1Done
    \/ TokensReply
    \/ TokensError
    \/ TokensBackoffDone
    \/ Phase2Timeout
    \/ Sleep2Done
    \/ SubReply
    \/ SubError
    \/ SubTimeout

Next == OrchNext

Spec == Init /\ [][Next]_vars

\* timers fire: every setTimeout callback that is due eventually runs, and
\* so does the synchronous prefix of an invoked run
LiveSpec ==
    /\ Spec
    /\ WF_vars(EnterPhase1)
    /\ WF_vars(BalanceBackoffDone)
    /\ WF_vars(Phase1Timeout)
    /\ WF_vars(Sleep1Done)
    /\ WF_vars(TokensBackoffDone)
    /\ WF_vars(Phase2Timeout)
    /\ WF_vars(Sleep2Done)
    /\ WF_vars(SubTimeout)

--------------------------------------------------------------------------
(* Claims about fetchWalletData *)

InRun == pc \in {"Start", "Phase1", "Sleep1", "Phase2", "Sleep2", "Phase3"}
PastPhase1 == pc \in {"Sleep1", "Phase2", "Sleep2", "Phase3"}
Failing == {"rejected", "timeout"}

\* C1 as stated: a failure of the balance fetch or of the price fetch
\* (provider error or malformed response), or the Phase-1 deadline, ends the
\* run in Failed with no snapshot: the run never gets past Phase 1.
C1_EitherFailureIsFatal ==
    (balState = "rejected" \/ priceState \in {"threw", "malformed"} \/ p1 = "timeout")
        => (pc \in {"Phase1", "Failed"} /\ snapshot = <<>>)

\* C1 as amended: a failure of the balance fetch (after its retries) or the
\* Phase-1 deadline ends the run in Failed, an error is thrown and no snapshot
\* is returned; a price-provider error or malformed price response alone does
\* not: the price resolves to the last cached price or else 100 (provider
\* error), or to 0 (malformed response), and the run goes on.
C1_BalanceFailureOrDeadlineIsFatal ==
    /\ (balState = "rejected" \/ p1 \in Failing)
          => (pc = "Failed" /\ snapshot = <<>> /\ error # <<>>)
    /\ (priceState \in {"threw", "malformed"} /\ balState = "fulfilled" /\ p1 # "timeout")
          => (p1 = "fulfilled" /\ pc # "Failed" /\ error = <<>>)
    /\ (priceState = "threw" /\ p1 = "fulfilled")
          => solPriceUsd = (IF cachedSolPrice > 0 THEN cachedSolPrice
                            ELSE FALLBACK_SOL_PRICE)
    /\ (priceState = "malformed" /\ p1 = "fulfilled") => solPriceUsd = 0

C1_Witness ==
    /\ balState = "rejected"
    /\ priceState = "ok"
    /\ pc = "Failed"
    /\ error = ErrNetwork

\* C2: once Phase 1 has succeeded, a rejection or a timeout of Phase 2 never
\* fails the run: it goes on to Phase 3 with tokens = [], and the snapshot
\* returned has tokens = [].
C2_TokenFailureNotFatal ==
    p2 \in Failing =>
        /\ p1 = "fulfilled"
        /\ pc \in {"Sleep2", "Phase3", "Assembled"}
        /\ error = <<>>
        /\ tokens = <<>>
        /\ pc = "Assembled" => (snapshot # <<>> /\ snapshot[1].tokens = <<>>)

C2_Witness ==
    /\ p2 = "rejected"
    /\ pc = "Assembled"
    /\ snapshot # <<>>
    /\ snapshot[1].tokens = <<>>
    /\ snapshot[1].transactions # <<>>

\* the slice of the snapshot that sub-fetch k fills
SliceOf(snap, k) ==
    CASE k = "nfts" -> snap.nfts
      [] k = "transactions" -> snap.transactions
      [] k = "history" -> snap.balanceHistory
      [] k = "staking" -> snap.stakedTokens

\* C3: the four sub-fetches of Phase 3 are joined settle-all: a rejection or
\* timeout of any of them never fails the run, the snapshot is returned as
\* soon as all four have settled, a failed sub-fetch's slice is empty and a
\* fulfilled sub-fetch's slice is exactly its own result.
C3_SettleAll ==
    /\ (\E k \in Subs : w[k].status # "idle") => pc \in {"Phase3", "Assembled"}
    /\ pc = "Phase3" => ~AllSettled(w)
    /\ pc = "Assembled" =>
          /\ AllSettled(w)
          /\ Len(snapshot) = 1
          /\ \A k \in Subs :
                /\ w[k].status \in Failing => SliceOf(snapshot[1], k) = <<>>
                /\ w[k].status = "fulfilled" =>
                      /\ SliceOf(snapshot[1], k) = w[k].value
                      /\ w[k].value \in SubResults(k, solBalance * LAMPORTS_PER_SOL)

C3_Witness ==
    /\ pc = "Assembled"
    /\ w["nfts"].status = "rejected"
    /\ w["history"].status = "timeout"
    /\ w["transactions"].status = "fulfilled"
    /\ w["staking"].status = "fulfilled"
    /\ snapshot[1].nfts = <<>>
    /\ snapshot[1].balanceHistory = <<>>
    /\ snapshot[1].transactions # <<>>
    /\ snapshot[1].stakedTokens # <<>>

\* C4: every run of fetchWalletData eventually ends Assembled or Failed, and
\* a run that has passed Phase 1 is eventually Assembled, whichever of the
\* network calls never resolve (timers fire).
C4_RunTerminates ==
    /\ InRun ~> (pc \in Terminal)
    /\ PastPhase1 ~> (pc = "Assembled")

\* a snapshot was assembled although neither the token resolver nor any
\* Phase-3 sub-fetch ever resolved
C4_Witness ==
    /\ pc = "Assembled"
    /\ tokState = "inflight"
    /\ p2 = "timeout"
    /\ \A k \in Subs : op[k] = "inflight" /\ w[k].status = "timeout"
    /\ snapshot # <<>>

PhaseOrder ==
    { <<"Idle", "Start">>, <<"Start", "Phase1">>, <<"Start", "Failed">>,
      <<"Phase1", "Sleep1">>, <<"Phase1", "Failed">>, <<"Sleep1", "Phase2">>,
      <<"Phase2", "Sleep2">>, <<"Sleep2", "Phase3">>, <<"Phase3", "Assembled">>,
      <<"Assembled", "Start">>, <<"Failed", "Start">> }

CallsInOrder ==
    /\ "tokens" \in calls => p1 = "fulfilled"
    /\ calls \cap Subs # {} => (p2 \in {"fulfilled"} \cup Failing /\ Subs \subseteq calls)
    /\ pc \in {"Idle", "Start"} => calls = {}

OneOutcome ==
    /\ Len(delivered) <= 1
    /\ pc = "Assembled" <=> delivered = <<"snapshot">>
    /\ pc = "Failed" <=> delivered = <<"error">>
    /\ pc = "Assembled" <=> snapshot # <<>>
    /\ pc = "Failed" <=> error # <<>>

\* C5: a run moves through Start, Phase1, Phase2, Phase3, Assembled in that
\* order (with the pacing sleeps in between); Failed is entered only from
\* Start or Phase1; the token resolver is called only after Phase 1 has
\* succeeded and the Phase-3 sub-fetches only after Phase 2 has settled; a
\* run delivers exactly one outcome, a snapshot or an error.
C5_PhaseOrder ==
    [][ /\ pc' # pc => <<pc, pc'>> \in PhaseOrder
        /\ CallsInOrder'
        /\ OneOutcome' ]_vars

C5_Witness ==
    /\ pc = "Assembled"
    /\ runs = MaxRuns
    /\ delivered = <<"snapshot">>
    /\ calls = {"getBalance", "tokens"} \cup Subs

\* value of a holding, an absent valueUsd counting as 0
HoldingValue(h) == IF "valueUsd" \in DOMAIN h THEN h.valueUsd ELSE 0

\* C6: every snapshot returned satisfies totalValueUsd = solBalance *
\* solPriceUsd + sum of tokens[i].valueUsd + sum of stakedTokens[j].valueUsd,
\* an absent valueUsd and an empty collection counting as 0.
C6_TotalIsSum ==
    snapshot # <<>> =>
        LET snap == snapshot[1] IN
        snap.totalValueUsd =
            snap.solBalance * snap.solPriceUsd
            + SeqSum([i \in 1..Len(snap.tokens) |-> HoldingValue(snap.tokens[i])])
            + SeqSum([j \in 1..Len(snap.stakedTokens) |->
                         HoldingValue(snap.stakedTokens[j])])

C6_Witness ==
    /\ snapshot # <<>>
    /\ snapshot[1].solBalance = 2
    /\ snapshot[1].solPriceUsd = 150
    /\ Len(snapshot[1].tokens) = 2
    /\ Len(snapshot[1].stakedTokens) = 1
    /\ snapshot[1].totalValueUsd = 347

\* the characters of s that belong to the base-58 alphabet, in order
Base58Part(s) == SelectSeq(s, LAMBDA c : c \in Base58Chars)

\* C7 as stated: every identifier that is no valid key (wrong length, or a
\* character outside the base-58 alphabet) fails with the invalid-identifier
\* error before Phase 1, no network call being issued.
C7_InvalidInputRejected ==
    [][ (pc = "Start" /\ ~IsPublicKey(address)) =>
            (pc' = "Failed" /\ error' = InvalidAddressError /\ calls' = {}) ]_vars

\* C7 as amended: every identifier whose sanitised form (the input with all
\* characters outside the base-58 alphabet removed) is no valid key fails
\* with the invalid-identifier error before Phase 1, no network call being
\* issued; an identifier whose sanitised form is a valid key is accepted in
\* that form.
C7_UnsanitisableInputRejected ==
    [][ /\ (pc = "Start" /\ ~IsPublicKey(Base58Part(address))) =>
              (pc' = "Failed" /\ error' = InvalidAddressError /\ calls' = {})
        /\ (pc = "Start" /\ IsPublicKey(Base58Part(address))) =>
              (pc' = "Phase1" /\ address' = Base58Part(address))
        /\ error' = InvalidAddressError => calls' = {} ]_vars

C7_Witness ==
    /\ pc = "Failed"
    /\ error = InvalidAddressError
    /\ address = GoodKey \o <<"A">>
    /\ calls = {}

--------------------------------------------------------------------------
(* withRetry(fn, label, maxRetries, baseDelay) on its own (lines 51-76) *)

MaxRetryParam == 3       \* largest maxRetries a caller passes

\* what fn() rejects with
RetryErrors ==
    { Err429, ErrTooMany, ErrServer, ErrTimeout, ErrETIMEDOUT,
      ErrInvalidParam, ErrNetwork, ErrTooManyUpper }
\* what fn() resolves with
RetryValues == { <<"value", "a">>, <<"value", "b">> }
BaseDelays == { DEFAULT_BASE_DELAY, 1000 }

RetryInit ==
    /\ rState = "idle"
    /\ rAttempt = 0
    /\ rMaxRetries \in 0..MaxRetryParam
    /\ rBaseDelay \in BaseDelays
    /\ rErrors = <<>>
    /\ rSleeps = <<>>
    /\ rInvocations = 0
    /\ rResult = <<>>

\* withRetry is called: attempt = 0, fn() is invoked (lines 57-60)
RetryStart ==
    /\ rState = "idle"
    /\ rState' = "calling"
    /\ rAttempt' = 0
    /\ rInvocations' = rInvocations + 1
    /\ UNCHANGED <<rMaxRetries, rBaseDelay, rErrors, rSleeps, rResult>>
    /\ UNCHANGED notRetry

\* fn() resolves: its value is returned (line 60)
RetryFnResolves ==
    /\ rState = "calling"
    /\ \E v \in RetryValues : rResult' = v
    /\ rState' = "returned"
    /\ UNCHANGED <<rAttempt, rMaxRetries, rBaseDelay, rErrors, rSleeps, rInvocations>>
    /\ UNCHANGED notRetry

\* fn() rejects: sleep before the next attempt, or rethrow (lines 61-72)
RetryFnRejects ==
    /\ rState = "calling"
    /\ \E msg \in RetryErrors :
        /\ rErrors' = Append(rErrors, msg)
        /\ IF ShouldRetry(msg, rAttempt, rMaxRetries)
           THEN /\ rState' = "sleeping"
                /\ rSleeps' = Append(rSleeps, BackoffDelay(rBaseDelay, rAttempt))
                /\ UNCHANGED rResult
           ELSE /\ rState' = "thrown"
                /\ rResult' = msg
                /\ UNCHANGED rSleeps
    /\ UNCHANGED <<rAttempt, rMaxRetries, rBaseDelay, rInvocations>>
    /\ UNCHANGED notRetry

\* the delay is over: attempt++ and fn() is invoked again (lines 58-60, 69)
RetrySleepDone ==
    /\ rState = "sleeping"
    /\ rState' = "calling"
    /\ rAttempt' = rAttempt + 1
    /\ rInvocations' = rInvocations + 1
    /\ UNCHANGED <<rMaxRetries, rBaseDelay, rErrors, rSleeps, rResult>>
    /\ UNCHANGED notRetry

RetryNext ==
    \/ RetryStart
    \/ RetryFnResolves
    \/ RetryFnRejects
    \/ RetrySleepDone

\* the orchestrator and the price cache stay in their initial state
RetrySpecInit == OrchInit /\ RetryInit /\ DexIdle /\ OthersIdle

RetrySpec == RetrySpecInit /\ [][RetryNext]_vars

--------------------------------------------------------------------------
(* Claims about withRetry *)

\* the failures that carry a rate-limit signature, and a timeout signature
RateLimitShaped == { Err429, ErrTooMany, ErrServer }
TimeoutShaped == { ErrTimeout, ErrETIMEDOUT }
Transient == RateLimitShaped \cup TimeoutShaped

DefaultPolicy ==
    rMaxRetries = DEFAULT_MAX_RETRIES /\ rBaseDelay = DEFAULT_BASE_DELAY

\* C8: withRetry invokes the operation again only after a transient failure;
\* a non-transient failure is rethrown at once, so that an operation whose
\* first failure is non-transient is invoked exactly once; with the default
\* policy the operation is invoked at most 3 times and the third transient
\* failure is rethrown.
C8_RetryOnlyTransient ==
    /\ \A i \in 1..Len(rErrors) : i < rInvocations => rErrors[i] \in Transient
    /\ \A i \in 1..Len(rErrors) :
          rErrors[i] \notin Transient =>
              (i = Len(rErrors) /\ rState = "thrown" /\ rResult = rErrors[i]
               /\ rInvocations = i)
    /\ (rErrors # <<>> /\ rErrors[1] \notin Transient) => rInvocations = 1
    /\ DefaultPolicy =>
          /\ rInvocations <= 3
          /\ (Len(rErrors) = 3) => (rState = "thrown" /\ rResult = rErrors[3])

C8_Witness ==
    /\ DefaultPolicy
    /\ rState = "thrown"
    /\ rInvocations = 3
    /\ rErrors = <<Err429, ErrTimeout, ErrServer>>
    /\ rResult = ErrServer

\* C9: with the default policy, an operation that fails twice with a
\* rate-limit-shaped error and then succeeds makes withRetry return the
\* success value after exactly two sleeps, of 1500 ms and then 3000 ms; in
\* general the k-th sleep lasts baseDelay * 2^(k-1), and no sleep follows the
\* success.
C9_BackoffDoubles ==
    /\ (DefaultPolicy /\ rState = "returned" /\ Len(rErrors) = 2
          /\ rErrors[1] \in RateLimitShaped /\ rErrors[2] \in RateLimitShaped)
          => (rResult \in RetryValues /\ rInvocations = 3
              /\ rSleeps = <<1500, 3000>>)
    /\ \A k \in 1..Len(rSleeps) :
          /\ rSleeps[k] = rBaseDelay * (2 ^ (k - 1))
          /\ k > 1 => rSleeps[k] = 2 * rSleeps[k - 1]
    /\ rState = "returned" => Len(rSleeps) = rInvocations - 1

C9_Witness ==
    /\ DefaultPolicy
    /\ rState = "returned"
    /\ rErrors = <<Err429, ErrTooMany>>
    /\ rSleeps = <<1500, 3000>>
    /\ rResult = <<"value", "a">>
    /\ rInvocations = 3

--------------------------------------------------------------------------
(* fetchDexScreenerData (lines 120-202) *)

DEX_CACHE_TTL == 300000
BATCH_SIZE == 2          \* identifiers per provider request, scaled down from 30
MaxPairs == 2            \* pairs listed in one provider response
MaxDexCalls == 3         \* calls of fetchDexScreenerData in one behaviour
MaxDexTicks == 2         \* advances of the clock in one behaviour
DexTick == 200000        \* one advance of the clock, in ms

\* mint identifiers, in the order long `mints` arguments list them
MintNames == <<"m1", "m2", "m3", "m4">>
DexMints == Range(MintNames)
\* the `mints` arguments callers pass: none, one, two, and one more than a
\* provider request holds
MintLists ==
    { <<>>, <<"m1">>, <<"m2", "m1">>, SubSeq(MintNames, 1, BATCH_SIZE + 1) }

\* the pairs the provider lists for mint m: pair.baseToken.address,
\* pair.liquidity?.usd (absent on some listings) and pair.priceUsd
PairsOf(m) ==
    IF m = "m1"
    THEN { [mint |-> m, liquidity |-> 100, priceUsd |-> 1],
           [mint |-> m, liquidity |-> 500, priceUsd |-> 2],
           [mint |-> m, liquidity |-> 500, priceUsd |-> 3],
           [mint |-> m, priceUsd |-> 4] }
    ELSE { [mint |-> m, liquidity |-> 100, priceUsd |-> 1] }

\* the array payloads a request for `batch` can be answered with
Responses(batch) ==
    LET P == UNION {PairsOf(m) : m \in Range(batch)}
    IN  UNION {[1..n -> P] : n \in 0..MaxPairs}

Min(a, b) == IF a < b THEN a ELSE b

\* map.set(k, v)
MapPut(f, k, v) == [x \in DOMAIN f \cup {k} |-> IF x = k THEN v ELSE f[x]]

\* mints.slice(i, i + BATCH_SIZE)
Batch(mints, i) == SubSeq(mints, i + 1, Min(i + BATCH_SIZE, Len(mints)))

\* pair.liquidity?.usd ?? 0
Liquidity(pair) == IF "liquidity" \in DOMAIN pair THEN pair.liquidity ELSE 0

\* the first pair listed for each mint is kept, whatever its liquidity
RECURSIVE BestPair_FirstListed(_, _)
BestPair_FirstListed(pairs, best) ==
    IF pairs = <<>> THEN best
    ELSE LET pair == Head(pairs) IN
         IF "mint" \notin DOMAIN pair \/ pair.mint \in DOMAIN best
         THEN BestPair_FirstListed(Tail(pairs), best)
         ELSE BestPair_FirstListed(Tail(pairs), MapPut(best, pair.mint, pair))

\* lines 165-173: the highest-liquidity pair of each mint, first one on ties
RECURSIVE BestPair(_, _)
BestPair(pairs, best) ==
    IF pairs = <<>> THEN best
    ELSE LET pair == Head(pairs) IN
         IF "mint" \notin DOMAIN pair THEN BestPair(Tail(pairs), best)
         ELSE IF pair.mint \notin DOMAIN best
                 \/ Liquidity(pair) > Liquidity(best[pair.mint])
              THEN BestPair(Tail(pairs), MapPut(best, pair.mint, pair))
              ELSE BestPair(Tail(pairs), best)

\* lines 176-182
ToToken(pair) == [priceUsd |-> pair.priceUsd]

\* lines 175-185 applied to a map: every best pair is stored
StoreBest(map, best) ==
    [m \in DOMAIN map \cup DOMAIN best |->
        IF m \in DOMAIN best THEN ToToken(best[m]) ELSE map[m]]

\* lines 143-146 and 194-199: what `result` lacks is taken from the cache
FillFromCache(result, mints, cache) ==
    [m \in DOMAIN result \cup (Range(mints) \cap DOMAIN cache) |->
        IF m \in DOMAIN result THEN result[m] ELSE cache[m]]

\* lines 137-139
Uncached(mints, now) ==
    IF now - dexCacheTimestamp > DEX_CACHE_TTL
    THEN mints
    ELSE SelectSeq(mints, LAMBDA m : m \notin DOMAIN dexCache)

dexLocals == <<dMints, dNow, dUncached, dI, dResult, dLog, dPairs>>

\* Date.now() advances
DexClockTick ==
    /\ dexClock < StartTime + MaxDexTicks * DexTick
    /\ dexClock' = dexClock + DexTick
    /\ UNCHANGED <<dexCache, dexCacheTimestamp, dpc, dexLocals, dCalls, dStoredAt>>
    /\ UNCHANGED notDex

\* fetchDexScreenerData(mints) is called by c: lines 132-156, up to the
\* first await, or to the return when nothing has to be fetched
DexCall(c) ==
    /\ dCalls < MaxDexCalls
    /\ dCalls' = dCalls + 1
    /\ dpc[c] \in {"idle", "done"}
    /\ \E mints \in MintLists :
        /\ dMints' = [dMints EXCEPT ![c] = mints]
        /\ dNow' = [dNow EXCEPT ![c] = dexClock]
        /\ dI' = [dI EXCEPT ![c] = 0]
        /\ dLog' = [dLog EXCEPT ![c] = <<>>]
        /\ dPairs' = [dPairs EXCEPT ![c] = <<>>]
        /\ IF mints = <<>>
           THEN /\ dpc' = [dpc EXCEPT ![c] = "done"]
                /\ dUncached' = [dUncached EXCEPT ![c] = <<>>]
                /\ dResult' = [dResult EXCEPT ![c] = EmptyMap]
           ELSE /\ dUncached' = [dUncached EXCEPT ![c] = Uncached(mints, dexClock)]
                /\ IF Uncached(mints, dexClock) = <<>>
                   THEN /\ dpc' = [dpc EXCEPT ![c] = "done"]
                        /\ dResult' = [dResult EXCEPT ![c] =
                                          FillFromCache(EmptyMap, mints, dexCache)]
                   ELSE /\ dpc' = [dpc EXCEPT ![c] = "await"]
                        /\ dResult' = [dResult EXCEPT ![c] = EmptyMap]
    /\ UNCHANGED <<dexCache, dexCacheTimestamp, dexClock, dStoredAt>>
    /\ UNCHANGED notDex

\* lines 152-201 after a batch has been dealt with: the next batch is
\* requested, or the timestamp is set, the result filled and returned
DexAdvance(c, cache, result) ==
    /\ dexCache' = cache
    /\ IF dI[c] + BATCH_SIZE < Len(dMints[c])
       THEN /\ dI' = [dI EXCEPT ![c] = dI[c] + BATCH_SIZE]
            /\ dResult' = [dResult EXCEPT ![c] = result]
            /\ UNCHANGED <<dexCacheTimestamp, dpc>>
       ELSE /\ dexCacheTimestamp' = dNow[c]
            /\ dResult' = [dResult EXCEPT ![c] =
                              FillFromCache(result, dMints[c], cache)]
            /\ dpc' = [dpc EXCEPT ![c] = "done"]
            /\ UNCHANGED dI
    /\ UNCHANGED <<dexClock, dMints, dNow, dUncached, dCalls>>

\* history: the entries of `best` are set now
StoredAt(best) ==
    IF dStoredAt = NotRecorded THEN dStoredAt
    ELSE [m \in DOMAIN dStoredAt \cup DOMAIN best |->
             IF m \in DOMAIN best THEN dexClock ELSE dStoredAt[m]]

\* the provider answers c's batch in flight with an array of pairs
DexBatchReply(c) ==
    /\ dpc[c] = "await"
    /\ \E pairs \in Responses(Batch(dMints[c], dI[c])) :
        LET best == BestPair(pairs, EmptyMap)
        IN  /\ DexAdvance(c, StoreBest(dexCache, best), StoreBest(dResult[c], best))
            /\ dPairs' = [dPairs EXCEPT ![c] = pairs]
            /\ dStoredAt' = StoredAt(best)
    /\ dLog' = [dLog EXCEPT ![c] = Append(dLog[c], "array")]
    /\ UNCHANGED notDex

\* the payload is not an array: `continue` (lines 159-162)
DexBatchBadShape(c) ==
    /\ dpc[c] = "await"
    /\ DexAdvance(c, dexCache, dResult[c])
    /\ dLog' = [dLog EXCEPT ![c] = Append(dLog[c], "badshape")]
    /\ dPairs' = [dPairs EXCEPT ![c] = <<>>]
    /\ UNCHANGED dStoredAt
    /\ UNCHANGED notDex

\* a failed batch ends the call with a rejection
DexBatchThrows_Rejects(c) ==
    /\ dpc[c] = "await"
    /\ dpc' = [dpc EXCEPT ![c] = "rejected"]
    /\ dLog' = [dLog EXCEPT ![c] = Append(dLog[c], "throws")]
    /\ UNCHANGED <<dexCache, dexCacheTimestamp, dexClock, dMints, dNow,
                   dUncached, dI, dResult, dPairs, dCalls, dStoredAt>>
    /\ UNCHANGED notDex

\* fetch or response.json() throws: caught (lines 186-188)
DexBatchThrows(c) ==
    /\ dpc[c] = "await"
    /\ DexAdvance(c, dexCache, dResult[c])
    /\ dLog' = [dLog EXCEPT ![c] = Append(dLog[c], "throws")]
    /\ dPairs' = [dPairs EXCEPT ![c] = <<>>]
    /\ UNCHANGED dStoredAt
    /\ UNCHANGED notDex

\* calls made one after the other by one caller
DexNext ==
    \/ DexClockTick
    \/ DexCall("c1")
    \/ DexBatchReply("c1")
    \/ DexBatchBadShape("c1")
    \/ DexBatchThrows("c1")

DexSpec == Init /\ [][DexNext]_vars

\* the identifiers of c's call that were cache hits when it arrived: the call
\* arrived within the TTL and the cache held them (line 137-139 kept them out
\* of `uncached`); none when the cache was stale
HitsAtArrival(c) == Range(dMints[c]) \ Range(dUncached[c])

\* C10: when a call arrives within the 5-minute TTL of the last refresh, no
\* provider request of that call contains an identifier that was already in
\* the cache, also when the call asks for other identifiers that are not cached
C10_NoRequestForCachedId ==
    \A c \in DexCallers :
        dpc[c] = "await" =>
            Range(Batch(dMints[c], dI[c])) \cap HitsAtArrival(c) = {}

\* C11: two successive requests for an identifier within the TTL window issue
\* at most one provider batch call in total, whatever the first call's
\* outcome: when the first request issued a batch call for the identifier,
\* the next request for it, made within the TTL, returns without one
C11_AtMostOneBatchCall ==
    [][ \A c \in DexCallers, m \in DexMints :
          ( /\ dpc[c] = "done"
            /\ dLog[c] # <<>>
            /\ m \in Range(dMints[c])
            /\ dCalls' = dCalls + 1
            /\ m \in Range(dMints'[c])
            /\ dexClock - dNow[c] <= DEX_CACHE_TTL )
          => dpc'[c] = "done" ]_vars

\* the pairs of a payload listed for mint m, in the order listed
PairsFor(pairs, m) == SelectSeq(pairs, LAMBDA p : p.mint = m)

\* the first listed of the pairs whose liquidity no other pair exceeds
FirstOfGreatest(ps) ==
    LET great(i) == \A j \in 1..Len(ps) : Liquidity(ps[j]) <= Liquidity(ps[i])
    IN  ps[CHOOSE i \in 1..Len(ps) :
              great(i) /\ \A j \in 1..(i - 1) : ~great(j)]

\* C12: when one provider response lists several pairs for an identifier, the
\* cache stores and the call returns the data of the pair with the greatest
\* liquidity (missing liquidity counts as 0, the first listed among equal
\* maxima), whatever the order of the listing
C12_BestLiquidityWins ==
    \A c \in DexCallers :
        (dLog[c] # <<>> /\ dLog[c][Len(dLog[c])] = "array") =>
            \A m \in {p.mint : p \in Range(dPairs[c])} :
                LET chosen == ToToken(FirstOfGreatest(PairsFor(dPairs[c], m)))
                IN  /\ m \in DOMAIN dexCache /\ dexCache[m] = chosen
                    /\ m \in DOMAIN dResult[c] /\ dResult[c][m] = chosen

\* a returned call whose last response listed m1 with liquidity 100, then 500
C12_Witness ==
    /\ dpc["c1"] = "done"
    /\ dPairs["c1"] = << [mint |-> "m1", liquidity |-> 100, priceUsd |-> 1],
                         [mint |-> "m1", liquidity |-> 500, priceUsd |-> 2] >>
    /\ dResult["c1"]["m1"].priceUsd = 2

\* the identifiers of the batches of c's call that failed
FailedMints(c) ==
    UNION { Range(Batch(dMints[c], (k - 1) * BATCH_SIZE)) :
              k \in {n \in 1..Len(dLog[c]) : dLog[c][n] # "array"} }

\* a step in which a batch of c's call fails
BatchFails(c) ==
    /\ Len(dLog'[c]) = Len(dLog[c]) + 1
    /\ dLog'[c][Len(dLog'[c])] \in {"badshape", "throws"}

\* C13: fetchDexScreenerData never rejects; when a batch call fails or returns
\* a non-array payload the cache is left as it is and the remaining batches
\* are still attempted, and each identifier of a failed batch is returned
\* from its cache entry if there is one and is otherwise absent from the result
C13_FailedBatchDegrades ==
    /\ [](\A c \in DexCallers :
            /\ dpc[c] \in {"idle", "await", "done"}
            /\ dpc[c] = "done" =>
                 \A m \in FailedMints(c) :
                    IF m \in DOMAIN dexCache
                    THEN m \in DOMAIN dResult[c] /\ dResult[c][m] = dexCache[m]
                    ELSE m \notin DOMAIN dResult[c])
    /\ [][ \A c \in DexCallers :
             BatchFails(c) =>
                /\ dexCache' = dexCache
                /\ IF dI[c] + BATCH_SIZE < Len(dMints[c])
                   THEN dpc'[c] = "await" /\ dI'[c] = dI[c] + BATCH_SIZE
                   ELSE dpc'[c] = "done" ]_vars

\* a returned call whose first batch failed and whose second was answered:
\* m1 comes from its earlier cache entry, m2 has none and is absent
C13_Witness ==
    /\ dpc["c1"] = "done"
    /\ dLog["c1"] = <<"throws", "array">>
    /\ "m1" \in DOMAIN dResult["c1"]
    /\ "m2" \notin DOMAIN dResult["c1"]

--------------------------------------------------------------------------
(* fetchTokenBalances (lines 256-360) *)

MAX_TOKENS_TO_LOOKUP == 2    \* holdings enriched and returned, scaled down from 50
MAX_HELIUS_LOOKUP == 1       \* mints passed to the fallback, scaled down from 30

Pow10(n) == IF n = 0 THEN 1 ELSE 10

\* a parsed token account; uiAmount is amount / 10^decimals
Account(m, amount, decimals) ==
    [mint |-> m, amount |-> amount, decimals |-> decimals,
     uiAmount |-> amount \div Pow10(decimals)]

\* what the scan of the legacy token program can answer: a fungible holding
\* of m1 and one of m2, an empty account, an NFT-like account, and a
\* fungible holding of one whole unit
LegacyLists ==
    { <<>>,
      << Account("m2", 3, 0), Account("m1", 50, 1), Account("m3", 0, 0) >>,
      << Account("m4", 1, 0), Account("m3", 10, 1), Account("m2", 3, 0) >> }

\* what the scan of the Token-2022 program can answer: a second account of
\* mint m1
Token2022Lists ==
    { <<>>,
      << Account("m1", 40, 1) >>,
      << Account("m1", 40, 1), Account("m4", 70, 1) >> }

\* s.slice(0, n)
Take(s, n) == SubSeq(s, 1, Min(n, Len(s)))

\* every account with a balance is kept, NFT-like ones too
KeepAccount_NonZeroOnly(ta) == ta.uiAmount # 0

\* the filter of lines 279-287
KeepAccount(ta) ==
    /\ ta.uiAmount # 0
    /\ ~(ta.decimals = 0 /\ ta.amount = 1)

\* (a, b) => b.uiAmount - a.uiAmount
UiBefore(a, b) == a.uiAmount > b.uiAmount

\* line 299, Array.prototype.sort with a consistent comparator: the stable
\* arrangement in which a precedes b whenever UiBefore(a, b)
SortByUiAmount(s) ==
    LET rank(i) == 1 + Cardinality({ j \in 1..Len(s) :
                        \/ UiBefore(s[j], s[i])
                        \/ ~UiBefore(s[i], s[j]) /\ j < i })
    IN  [k \in 1..Len(s) |-> s[CHOOSE i \in 1..Len(s) : rank(i) = k]]

\* lines 293-301
SortedAccounts(allAccounts) ==
    Take(SortByUiAmount(SelectSeq(allAccounts, KeepAccount)),
         MAX_TOKENS_TO_LOOKUP)

\* line 303
MintsOf(accounts) == [i \in 1..Len(accounts) |-> accounts[i].mint]

\* the maps fetchDexScreenerData can return for `mints`: a token for some of
\* them, whose priceUsd is 0 when the listing had no parsable price
DexDataFor(mints) ==
    UNION { [S -> { [symbol |-> <<"dex", p>>, priceUsd |-> p] : p \in {0, 2} }] :
              S \in SUBSET Range(mints) }

\* line 314
MissingMints(mints, dex) ==
    Take(SelectSeq(mints, LAMBDA m : m \notin DOMAIN dex), MAX_HELIUS_LOOKUP)

\* the maps fetchHeliusAssetBatch can return for `mints`
HeliusMetaFor(mints) ==
    UNION { [S -> { [symbol |-> <<"helius">>] }] : S \in SUBSET Range(mints) }

\* mint.slice(0, 4) + '...'
ShortenMint(m) == <<"short", m>>

\* verified also when only the fallback knows the mint
BuildToken_VerifiedByFallback(ta, dex, helius) ==
    [mint |-> ta.mint, symbol |-> ShortenMint(ta.mint), amount |-> ta.amount,
     decimals |-> ta.decimals, uiAmount |-> ta.uiAmount,
     verified |-> ta.mint \in DOMAIN dex \/ ta.mint \in DOMAIN helius]

\* lines 321-344: the TokenBalance of one account
BuildToken(ta, dex, helius) ==
    LET mint == ta.mint
        base == [mint |-> mint,
                 symbol |-> IF mint \in DOMAIN dex THEN dex[mint].symbol
                            ELSE IF mint \in DOMAIN helius THEN helius[mint].symbol
                            ELSE ShortenMint(mint),
                 amount |-> ta.amount,
                 decimals |-> ta.decimals,
                 uiAmount |-> ta.uiAmount,
                 verified |-> mint \in DOMAIN dex]
    IN  IF mint \in DOMAIN dex /\ dex[mint].priceUsd # 0
        THEN base @@ [priceUsd |-> dex[mint].priceUsd,
                      valueUsd |-> dex[mint].priceUsd * ta.uiAmount]
        ELSE base

\* ordered by uiAmount alone
TokenBefore_ByAmount(a, b) == a.uiAmount > b.uiAmount

\* the comparator of lines 348-353
TokenBefore(a, b) ==
    LET aVal == ValueOrZero(a)
        bVal == ValueOrZero(b)
    IN  IF bVal # aVal THEN aVal > bVal ELSE a.uiAmount > b.uiAmount

\* lines 348-353, tokens.sort: the stable arrangement in which a precedes b
\* whenever TokenBefore(a, b)
SortTokens(s) ==
    LET rank(i) == 1 + Cardinality({ j \in 1..Len(s) :
                        \/ TokenBefore(s[j], s[i])
                        \/ ~TokenBefore(s[i], s[j]) /\ j < i })
    IN  [k \in 1..Len(s) |-> s[CHOOSE i \in 1..Len(s) : rank(i) = k]]

\* lines 319-355: the list returned
TokensOf(accounts, dex, helius) ==
    SortTokens([i \in 1..Len(accounts) |-> BuildToken(accounts[i], dex, helius)])

tokRetry == <<tAttempt, tOuter, tErr, tLog>>

\* withRetry(() => fetchTokenBalances(address), 'Tokens') calls
\* fetchTokenBalances: lines 257-264, the legacy scan is issued
TokStart ==
    /\ tpc = "idle"
    /\ tpc' = "scan1"
    /\ tLog' = tLog \o <<"start", "legacy">>
    /\ UNCHANGED <<tAcc1, tAcc2, tSorted, tDex, tHelius, tFail, tOut,
                   tAttempt, tOuter, tErr>>
    /\ UNCHANGED notTok

\* the legacy scan is answered and the Token-2022 scan is issued at once
TokScan1Reply_SkipsPacing ==
    /\ tpc = "scan1"
    /\ \E accounts \in LegacyLists : tAcc1' = accounts
    /\ tpc' = "scan2"
    /\ tAttempt' = 0
    /\ tLog' = tLog \o <<"legacy-ok", "t2022">>
    /\ UNCHANGED <<tAcc2, tSorted, tDex, tHelius, tFail, tOut, tOuter, tErr>>
    /\ UNCHANGED notTok

\* the legacy scan is answered: withRetry returns and sleep(200) begins
\* (lines 261-265)
TokScan1Reply ==
    /\ tpc = "scan1"
    /\ \E accounts \in LegacyLists : tAcc1' = accounts
    /\ tpc' = "pace"
    /\ tAttempt' = 0
    /\ tLog' = Append(tLog, "legacy-ok")
    /\ UNCHANGED <<tAcc2, tSorted, tDex, tHelius, tFail, tOut, tOuter, tErr>>
    /\ UNCHANGED notTok

\* sleep(200) is over: the Token-2022 scan is issued (lines 265-269)
TokPaceDone ==
    /\ tpc = "pace"
    /\ tpc' = "scan2"
    /\ tLog' = tLog \o <<"pace", "t2022">>
    /\ UNCHANGED <<tAcc1, tAcc2, tSorted, tDex, tHelius, tFail, tOut,
                   tAttempt, tOuter, tErr>>
    /\ UNCHANGED notTok

\* the Token-2022 scan is answered: lines 270-307, up to the await of
\* fetchDexScreenerData(mints)
TokScan2Reply ==
    /\ tpc = "scan2"
    /\ \E accounts \in Token2022Lists :
        /\ tAcc2' = accounts
        /\ tSorted' = SortedAccounts(tAcc1 \o accounts)
    /\ tpc' = "dex"
    /\ tAttempt' = 0
    /\ tLog' = Append(tLog, "t2022-ok")
    /\ UNCHANGED <<tAcc1, tDex, tHelius, tFail, tOut, tOuter, tErr>>
    /\ UNCHANGED notTok

\* the scan in flight rejects with msg (lines 61-72): its withRetry backs
\* off, or rethrows; the rethrown error leaves fetchTokenBalances (the await
\* of line 261 or 266) and reaches the withRetry of line 729, which backs
\* off or rethrows in its turn
TokScanFails ==
    /\ tpc \in {"scan1", "scan2"}
    /\ \E msg \in RpcErrors :
        /\ tLog' = Append(tLog, IF tpc = "scan1" THEN "legacy-err" ELSE "t2022-err")
        /\ IF ShouldRetry(msg, tAttempt, DEFAULT_MAX_RETRIES)
           THEN /\ tpc' = IF tpc = "scan1" THEN "backoff1" ELSE "backoff2"
                /\ UNCHANGED <<tFail, tErr>>
           ELSE /\ tFail' = tFail \cup {tpc}
                /\ tErr' = <<msg>>
                /\ tpc' = IF ShouldRetry(msg, tOuter, DEFAULT_MAX_RETRIES)
                          THEN "retry" ELSE "rejected"
    /\ UNCHANGED <<tAcc1, tAcc2, tSorted, tDex, tHelius, tOut, tAttempt, tOuter>>
    /\ UNCHANGED notTok

\* the backoff timer of the scan's withRetry fires: the scan is issued again
\* (lines 58-60, 69)
TokBackoffDone ==
    /\ tpc \in {"backoff1", "backoff2"}
    /\ tpc' = IF tpc = "backoff1" THEN "scan1" ELSE "scan2"
    /\ tAttempt' = tAttempt + 1
    /\ tLog' = Append(tLog, IF tpc = "backoff1" THEN "legacy" ELSE "t2022")
    /\ UNCHANGED <<tAcc1, tAcc2, tSorted, tDex, tHelius, tFail, tOut, tOuter, tErr>>
    /\ UNCHANGED notTok

\* the backoff timer of withRetry(() => fetchTokenBalances(address)) fires:
\* fetchTokenBalances is called again and issues the legacy scan (line 729)
TokRetryDone ==
    /\ tpc = "retry"
    /\ tpc' = "scan1"
    /\ tOuter' = tOuter + 1
    /\ tAttempt' = 0
    /\ tAcc1' = <<>>
    /\ tAcc2' = <<>>
    /\ tFail' = {}
    /\ tErr' = <<>>
    /\ tLog' = tLog \o <<"start", "legacy">>
    /\ UNCHANGED <<tSorted, tDex, tHelius, tOut>>
    /\ UNCHANGED notTok

\* lines 319-355: the holdings are built, sorted and returned
TokReturn(dex, helius) ==
    /\ tpc' = "returned"
    /\ tOut' = TokensOf(tSorted, dex, helius)

\* lines 307-317 once fetchDexScreenerData has returned `dex`: after
\* sleep(200) the fallback is asked about the missing mints, if any
TokAfterDex(dex) ==
    /\ tDex' = dex
    /\ IF MissingMints(MintsOf(tSorted), dex) = <<>>
       THEN TokReturn(dex, EmptyMap)
       ELSE tpc' = "helius" /\ UNCHANGED tOut
    /\ UNCHANGED <<tAcc1, tAcc2, tSorted, tHelius>>

\* fetchDexScreenerData returns what it resolved
TokDexReturns ==
    /\ tpc = "dex"
    /\ \E dex \in DexDataFor(MintsOf(tSorted)) : TokAfterDex(dex)
    /\ UNCHANGED <<tFail, tokRetry>>
    /\ UNCHANGED notTok

\* every batch of fetchDexScreenerData failed and its cache is empty: it
\* returns an empty map
TokDexFails ==
    /\ tpc = "dex"
    /\ TokAfterDex(EmptyMap)
    /\ tFail' = tFail \cup {"dex"}
    /\ UNCHANGED tokRetry
    /\ UNCHANGED notTok

\* fetchHeliusAssetBatch returns the metadata it found
TokHeliusReturns ==
    /\ tpc = "helius"
    /\ \E meta \in HeliusMetaFor(MissingMints(MintsOf(tSorted), tDex)) :
        /\ tHelius' = meta
        /\ TokReturn(tDex, meta)
    /\ UNCHANGED <<tAcc1, tAcc2, tSorted, tDex, tFail, tokRetry>>
    /\ UNCHANGED notTok

\* the failure of getAssetBatch leaves fetchTokenBalances with a rejection
TokHeliusFails_Rejects ==
    /\ tpc = "helius"
    /\ tpc' = "rejected"
    /\ tFail' = tFail \cup {"helius"}
    /\ UNCHANGED <<tAcc1, tAcc2, tSorted, tDex, tHelius, tOut, tokRetry>>
    /\ UNCHANGED notTok

\* getAssetBatch fails: caught inside fetchHeliusAssetBatch (lines 249-251),
\* which returns its empty map
TokHeliusFails ==
    /\ tpc = "helius"
    /\ tHelius' = EmptyMap
    /\ TokReturn(tDex, EmptyMap)
    /\ tFail' = tFail \cup {"helius"}
    /\ UNCHANGED <<tAcc1, tAcc2, tSorted, tDex, tokRetry>>
    /\ UNCHANGED notTok

TokNext ==
    \/ TokStart
    \/ TokScan1Reply
    \/ TokPaceDone
    \/ TokScan2Reply
    \/ TokScanFails
    \/ TokBackoffDone
    \/ TokRetryDone
    \/ TokDexReturns
    \/ TokDexFails
    \/ TokHeliusReturns
    \/ TokHeliusFails

TokSpec == Init /\ [][TokNext]_vars

ScanFailures == {"scan1", "scan2"}
\* fetchTokenBalances has rejected: for good, or to be called again
Rejected == {"rejected", "retry"}
Unpriced(h) == "priceUsd" \notin DOMAIN h /\ "valueUsd" \notin DOMAIN h

\* C14: a failure of either token-program scan makes fetchTokenBalances
\* reject without a partial list; a failure of the price-cache call or of
\* the metadata fallback never does: the fetch goes on and the holdings the
\* cache did not resolve are returned unverified and unpriced
C14_OnlyScanFailureRejects ==
    /\ (tFail \cap ScanFailures # {}) => (tpc \in Rejected /\ tOut = <<>>)
    /\ tpc \in Rejected => (tFail \cap ScanFailures # {})
    /\ (tFail # {} /\ tFail \cap ScanFailures = {}) => tpc \in {"helius", "returned"}
    /\ tpc = "returned" =>
          /\ Len(tOut) = Len(tSorted)
          /\ \A i \in 1..Len(tOut) :
                tOut[i].mint \notin DOMAIN tDex =>
                    (~tOut[i].verified /\ Unpriced(tOut[i]))

\* both enrichment calls failed and the holdings were returned all the same
C14_Witness ==
    /\ tpc = "returned"
    /\ tFail = {"dex", "helius"}
    /\ Len(tOut) = MAX_TOKENS_TO_LOOKUP
    /\ \A i \in 1..Len(tOut) : ~tOut[i].verified

\* the account a holding was built from
AccountOf(h) ==
    [mint |-> h.mint, amount |-> h.amount, decimals |-> h.decimals,
     uiAmount |-> h.uiAmount]

\* non-zero balance and not NFT-like (raw amount 1 with 0 decimals)
Survives(a) == a.uiAmount # 0 /\ ~(a.amount = 1 /\ a.decimals = 0)

\* C15: fetchTokenBalances returns at most 50 holdings (here
\* MAX_TOKENS_TO_LOOKUP), exactly the largest by UI amount among the merged
\* accounts of both programs that have a non-zero balance and are not
\* NFT-like; no filtered-out account appears in the result
C15_LargestSurvivors ==
    tpc = "returned" =>
        LET all == tAcc1 \o tAcc2
            surv == {i \in 1..Len(all) : Survives(all[i])}
        IN  /\ Len(tOut) <= MAX_TOKENS_TO_LOOKUP
            /\ \A k \in 1..Len(tOut) : Survives(AccountOf(tOut[k]))
            /\ \E sel \in SUBSET surv :
                /\ Cardinality(sel) = Min(MAX_TOKENS_TO_LOOKUP, Cardinality(surv))
                /\ Len(tOut) = Cardinality(sel)
                /\ \A i \in sel, j \in surv \ sel :
                      all[i].uiAmount >= all[j].uiAmount
                /\ \A a \in {all[i] : i \in surv} :
                      Cardinality({i \in sel : all[i] = a})
                        = Cardinality({k \in 1..Len(tOut) : AccountOf(tOut[k]) = a})

\* more accounts survive the filter than are returned, and some were
\* filtered out
C15_Witness ==
    /\ tpc = "returned"
    /\ Len(tOut) = MAX_TOKENS_TO_LOOKUP
    /\ Len(SelectSeq(tAcc1 \o tAcc2, Survives)) > MAX_TOKENS_TO_LOOKUP
    /\ Len(SelectSeq(tAcc1 \o tAcc2, Survives)) < Len(tAcc1 \o tAcc2)

\* C16: the list returned is ordered by descending valueUsd (absent counts
\* as 0) and, among equal values, by descending uiAmount
C16_OrderedByValue ==
    tpc = "returned" =>
        \A i \in 1..(Len(tOut) - 1) :
            LET a == tOut[i]
                b == tOut[i + 1]
                va == IF "valueUsd" \in DOMAIN a THEN a.valueUsd ELSE 0
                vb == IF "valueUsd" \in DOMAIN b THEN b.valueUsd ELSE 0
            IN  va > vb \/ (va = vb /\ a.uiAmount >= b.uiAmount)

\* a priced holding precedes an unpriced one of larger amount
C16_Witness ==
    /\ tpc = "returned"
    /\ Len(tOut) >= 2
    /\ "valueUsd" \in DOMAIN tOut[1]
    /\ "valueUsd" \notin DOMAIN tOut[2]
    /\ tOut[1].uiAmount < tOut[2].uiAmount

\* C17: verified is true exactly when the price cache resolved the mint in
\* this fetch; priceUsd and valueUsd are present only when a price was
\* resolved, with valueUsd = priceUsd * uiAmount; an unresolved holding has
\* verified = false, no price, no value, and the symbol of the on-chain
\* fallback or else the shortened mint
C17_VerifiedIffResolved ==
    tpc = "returned" =>
        \A i \in 1..Len(tOut) :
            LET h == tOut[i] IN
            /\ h.verified <=> h.mint \in DOMAIN tDex
            /\ "priceUsd" \in DOMAIN h <=> "valueUsd" \in DOMAIN h
            /\ "priceUsd" \in DOMAIN h =>
                  /\ h.mint \in DOMAIN tDex
                  /\ tDex[h.mint].priceUsd # 0
                  /\ h.priceUsd = tDex[h.mint].priceUsd
                  /\ h.valueUsd = h.priceUsd * h.uiAmount
            /\ h.mint \notin DOMAIN tDex =>
                  /\ ~h.verified
                  /\ Unpriced(h)
                  /\ h.symbol = IF h.mint \in DOMAIN tHelius
                                THEN tHelius[h.mint].symbol
                                ELSE ShortenMint(h.mint)

\* a verified, priced holding next to an unverified one named by the fallback
C17_Witness ==
    /\ tpc = "returned"
    /\ \E i, j \in 1..Len(tOut) :
        /\ tOut[i].verified /\ "valueUsd" \in DOMAIN tOut[i]
        /\ ~tOut[j].verified /\ tOut[j].mint \in DOMAIN tHelius

\* C18: fetchTokenBalances returns at most one TokenHolding per mint, also
\* when the holder owns several token accounts for the same mint
C18_OneHoldingPerMint ==
    tpc = "returned" =>
        \A i, j \in 1..Len(tOut) : i # j => tOut[i].mint # tOut[j].mint

--------------------------------------------------------------------------
(* fetchNFTs, fetchNFTsViaDAS, fetchNFTsFallback (lines 367-425) *)

NFT_FALLBACK_CAP == 2    \* stubs returned by the fallback, scaled down from 30
DAS_LIMIT == 3           \* `limit` of the getAssetsByOwner query, scaled down from 50
MaxNftCalls == 2         \* calls of fetchNFTs in one behaviour

NftNames == <<"n1", "n2", "n3", "n4">>

\* the shapes of an item of response.result.items: with name and image,
\* with a name only, with neither
DasItems(id) ==
    { [id |-> id, name |-> <<"name", id>>, image |-> <<"image", id>>],
      [id |-> id, name |-> <<"name", id>>],
      [id |-> id] }

\* the item arrays the provider can answer with: at most `limit` items
DasItemLists ==
    UNION { { items \in [1..n -> UNION {DasItems(NftNames[i]) : i \in 1..n}] :
                \A i \in 1..n : items[i].id = NftNames[i] } :
            n \in 0..DAS_LIMIT }

\* what the fallback scan can answer: no account, or a fungible holding
\* among one NFT-like account more than the cap
NftAccountLists ==
    { <<>>,
      << Account("m2", 3, 0) >>,
      << Account("m2", 3, 0) >>
         \o [i \in 1..(NFT_FALLBACK_CAP + 1) |-> Account(NftNames[i], 1, 0)] }

\* lines 389-398: the NFTAsset of one DAS item
DasAsset(item) ==
    [mint |-> item.id,
     name |-> IF "name" \in DOMAIN item THEN item.name ELSE <<"Unnamed NFT">>,
     image |-> IF "image" \in DOMAIN item THEN item.image ELSE <<>>]

\* lines 420-424: the stub of one mint
NftStub(mint) ==
    [mint |-> mint, name |-> <<"NFT", ShortenMint(mint)>>, image |-> <<>>]

\* lines 410-415
IsNftAccount(ta) == ta.amount = 1 /\ ta.decimals = 0

\* lines 409-424: the stubs of the first 30 NFT-like accounts
FallbackStubs(accounts) ==
    LET nftMints == MintsOf(SelectSeq(accounts, IsNftAccount))
        capped == Take(nftMints, NFT_FALLBACK_CAP)
    IN  [i \in 1..Len(capped) |-> NftStub(capped[i])]

\* fetchNFTs(address) is called: the getAssetsByOwner query is issued
\* (lines 369-385)
NftStart ==
    /\ npc \in {"idle", "returned", "rejected"}
    /\ Len(SelectSeq(nCalls, LAMBDA c : c = "das")) < MaxNftCalls
    /\ npc' = "das"
    /\ nDas' = "none"
    /\ nItems' = <<>>
    /\ nAccounts' = <<>>
    /\ nOut' = <<>>
    /\ nCalls' = Append(nCalls, "das")
    /\ UNCHANGED notNft

\* the query answers with an array of items: they are mapped and returned
\* (lines 387-398)
NftDasReply ==
    /\ npc = "das"
    /\ \E items \in DasItemLists :
        /\ nItems' = items
        /\ nOut' = [i \in 1..Len(items) |-> DasAsset(items[i])]
    /\ nDas' = "items"
    /\ npc' = "returned"
    /\ UNCHANGED <<nAccounts, nCalls>>
    /\ UNCHANGED notNft

\* lines 371-374 and 401-407: the catch of fetchNFTs calls
\* fetchNFTsFallback, which issues its scan
NftFallBack(outcome) ==
    /\ npc = "das"
    /\ nDas' = outcome
    /\ npc' = "fallback"
    /\ nCalls' = Append(nCalls, "scan")
    /\ UNCHANGED <<nItems, nAccounts, nOut>>

\* a response without items ends the fetch with an empty list
NftDasNoItems_ReturnsEmpty ==
    /\ npc = "das"
    /\ nDas' = "noitems"
    /\ npc' = "returned"
    /\ UNCHANGED <<nItems, nAccounts, nOut, nCalls>>
    /\ UNCHANGED notNft

\* the response has no result.items: line 387 throws 'DAS not supported'
NftDasNoItems ==
    /\ NftFallBack("noitems")
    /\ UNCHANGED notNft

\* _rpcRequest rejects
NftDasRejects ==
    /\ NftFallBack("rejected")
    /\ UNCHANGED notNft

\* result.items is there but cannot be mapped (it is not an array, or an
\* item of it is null): line 389 throws a TypeError
NftDasMalformed ==
    /\ NftFallBack("malformed")
    /\ UNCHANGED notNft

\* the fallback scan is answered (lines 409-424)
NftFallbackReply ==
    /\ npc = "fallback"
    /\ \E accounts \in NftAccountLists :
        /\ nAccounts' = accounts
        /\ nOut' = FallbackStubs(accounts)
    /\ npc' = "returned"
    /\ UNCHANGED <<nDas, nItems, nCalls>>
    /\ UNCHANGED notNft

\* the fallback scan rejects, and so does fetchNFTs
NftFallbackRejects ==
    /\ npc = "fallback"
    /\ npc' = "rejected"
    /\ UNCHANGED <<nDas, nItems, nAccounts, nCalls, nOut>>
    /\ UNCHANGED notNft

NftNext ==
    \/ NftStart
    \/ NftDasReply
    \/ NftDasNoItems
    \/ NftDasRejects
    \/ NftDasMalformed
    \/ NftFallbackReply
    \/ NftFallbackRejects

NftSpec == Init /\ [][NftNext]_vars

\* C19: fetchNFTs returns at most the capped count of 30 holdings (here
\* NFT_FALLBACK_CAP), on the DAS path as well as on the fallback path
C19_AtMostCap ==
    npc = "returned" => Len(nOut) <= NFT_FALLBACK_CAP

\* the fallback scan was issued by the call of fetchNFTs in progress or
\* last finished
ScanIssued == nCalls # <<>> /\ nCalls[Len(nCalls)] = "scan"

\* the result comes from one path: the DAS items, or the stubs of the
\* accounts with raw amount 1 and 0 decimals
OnePath ==
    npc = "returned" =>
        \/ /\ nDas = "items"
           /\ nOut = [i \in 1..Len(nItems) |-> DasAsset(nItems[i])]
        \/ /\ nDas # "items"
           /\ \E accs \in SUBSET {i \in 1..Len(nAccounts) : IsNftAccount(nAccounts[i])} :
                /\ Len(nOut) = Cardinality(accs)
                /\ \A k \in 1..Len(nOut) :
                      \E i \in accs : nOut[k] = NftStub(nAccounts[i].mint)

\* C20 as stated: the fallback scan is issued if and only if the DAS query
\* was rejected or returned no items field, and the result comes entirely
\* from one path
C20_FallbackIffRejectedOrNoItems ==
    /\ ScanIssued <=> nDas \in {"rejected", "noitems"}
    /\ OnePath

\* C20: the fallback scan is issued if and only if the DAS query failed: it
\* was rejected, returned no items field, or returned items that could not
\* be mapped; the result comes entirely from one path, DAS items or stubs
\* of accounts with raw amount 1 and 0 decimals, never a mix
C20_FallbackIffDasFailed ==
    /\ ScanIssued <=> nDas \in {"rejected", "noitems", "malformed"}
    /\ OnePath

\* a response without items was followed by the scan, whose stubs are returned
C20_Witness ==
    /\ npc = "returned"
    /\ nDas = "noitems"
    /\ ScanIssued
    /\ Len(nOut) = NFT_FALLBACK_CAP
    /\ nOut[1] = NftStub("n1")

--------------------------------------------------------------------------
(* fetchTransactions and parseTxInfo (lines 431-525) *)

TX_LIMIT == 3            \* parameter `limit`, scaled down from 10
TX_BATCH == 2            \* detail fetches per batch, scaled down from 3
DUST_LAMPORTS == 1000    \* 0.000001 SOL, the smallest difference reported

Wallet == "W"

\* lamports / LAMPORTS_PER_SOL, kept as an exact quotient
SolOf(lamports) == [lamports |-> lamports, per |-> LAMPORTS_PER_SOL]

\* x ?? null for a field that may be missing: <<x>>, or <<>> for null
Nullable(r, f) == IF f \in DOMAIN r THEN <<r[f]>> ELSE <<>>

\* the signatures the provider lists, newest first: blockTime is missing on
\* the second, which also reports an error
AllSigs ==
    << [signature |-> "s1", blockTime |-> 40],
       [signature |-> "s2", err |-> "InstructionError"],
       [signature |-> "s3", blockTime |-> 20],
       [signature |-> "s4", blockTime |-> 10] >>

\* getSignaturesForAddress(pubkey, {limit}) answers with at most `limit`
SigLists == { SubSeq(AllSigs, 1, n) : n \in 0..TX_LIMIT }

\* parsed transactions: the wallet pays 1 SOL out as first account key; a
\* failed transaction of other accounts; the wallet as second key of a
\* transaction without meta
ParsedTxs ==
    { [keys |-> <<Wallet, "K">>,
       meta |-> << [fee |-> 5000,
                    preBalances |-> <<2 * LAMPORTS_PER_SOL, 0>>,
                    postBalances |-> <<LAMPORTS_PER_SOL, LAMPORTS_PER_SOL>>] >>],
      [keys |-> <<"K", "J">>,
       meta |-> << [fee |-> 5000, err |-> "InstructionError",
                    preBalances |-> <<7, 7>>,
                    postBalances |-> <<7, 7>>] >>],
      [keys |-> <<"K", Wallet>>, meta |-> <<>>] }

\* how getParsedTransaction can settle: with a transaction, with null, or
\* rejected
DetailResults ==
    { [status |-> "fulfilled", value |-> <<tx>>] : tx \in ParsedTxs }
      \cup { [status |-> "fulfilled", value |-> <<>>], [status |-> "rejected"] }

\* accountKeys.findIndex(k => k.pubkey.toBase58() === a): 0-based, or -1
FindIndex(keys, a) ==
    IF a \in Range(keys)
    THEN (CHOOSE i \in 1..Len(keys) :
            keys[i] = a /\ \A j \in 1..(i - 1) : keys[j] # a) - 1
    ELSE -1

Abs(n) == IF n < 0 THEN -n ELSE n

\* lines 460-466: the record of a signature whose detail is not available
UnknownRecord(sig) ==
    [signature |-> sig.signature,
     timestamp |-> Nullable(sig, "blockTime"),
     type |-> "unknown",
     status |-> IF "err" \in DOMAIN sig THEN "failed" ELSE "success",
     fee |-> SolOf(0)]

\* parseTxInfo(tx, sig, walletAddress), lines 476-525
ParseTxInfo(tx, sig, walletAddress) ==
    LET meta == IF tx.meta = <<>> THEN [none |-> TRUE] ELSE tx.meta[1]
        preBalances == IF "preBalances" \in DOMAIN meta THEN meta.preBalances ELSE <<>>
        postBalances == IF "postBalances" \in DOMAIN meta THEN meta.postBalances ELSE <<>>
        walletIdx == FindIndex(tx.keys, walletAddress)
        known == walletIdx >= 0 /\ walletIdx + 1 <= Len(preBalances)
        diff == IF known THEN postBalances[walletIdx + 1] - preBalances[walletIdx + 1]
                ELSE 0
        moved == known /\ Abs(diff) > DUST_LAMPORTS
        base == [signature |-> sig.signature,
                 timestamp |-> Nullable(sig, "blockTime"),
                 type |-> IF moved THEN "transfer" ELSE "unknown",
                 status |-> IF "err" \in DOMAIN meta THEN "failed" ELSE "success",
                 fee |-> SolOf(IF "fee" \in DOMAIN meta THEN meta.fee ELSE 0)]
        transfer == IF moved
                    THEN [amount |-> SolOf(Abs(diff)),
                          direction |-> IF diff > 0 THEN "in" ELSE "out"]
                    ELSE [x \in {} |-> 0]
        party == IF walletIdx = 0 /\ Len(tx.keys) > 1
                 THEN [counterparty |-> tx.keys[2]]
                 ELSE IF walletIdx > 0 THEN [counterparty |-> tx.keys[1]]
                 ELSE [x \in {} |-> 0]
    IN  base @@ transfer @@ party

\* a signature whose detail is not available leaves no record
TxRecord_DropsFailed(result, sig) ==
    IF result.status = "fulfilled" /\ result.value # <<>>
    THEN <<ParseTxInfo(result.value[1], sig, Wallet)>>
    ELSE <<>>

\* lines 455-468: what one settled detail fetch pushes on txInfos
TxRecord(result, sig) ==
    IF result.status = "fulfilled" /\ result.value # <<>>
    THEN <<ParseTxInfo(result.value[1], sig, Wallet)>>
    ELSE <<UnknownRecord(sig)>>

RECURSIVE TxRecords(_, _)
TxRecords(results, sigs) ==
    IF results = <<>> THEN <<>>
    ELSE TxRecord(Head(results), Head(sigs)) \o TxRecords(Tail(results), Tail(sigs))

\* fetchTransactions(address) is called: the signature listing is issued
TxStart ==
    /\ xpc = "idle"
    /\ xpc' = "listing"
    /\ UNCHANGED <<xSigs, xI, xSettled, xInfos>>
    /\ UNCHANGED notTx

\* the listing is answered: the first batch of detail fetches is issued, or
\* the empty txInfos is returned (lines 438-453, 473)
TxListReply ==
    /\ xpc = "listing"
    /\ \E sigs \in SigLists :
        /\ xSigs' = sigs
        /\ xpc' = IF sigs = <<>> THEN "returned" ELSE "details"
    /\ UNCHANGED <<xI, xSettled, xInfos>>
    /\ UNCHANGED notTx

\* the listing rejects: the await of line 439 throws out of fetchTransactions
TxListFails ==
    /\ xpc = "listing"
    /\ xpc' = "rejected"
    /\ UNCHANGED <<xSigs, xI, xSettled, xInfos>>
    /\ UNCHANGED notTx

\* Promise.allSettled of the batch in flight settles (lines 447-473)
TxDetailsSettled ==
    /\ xpc = "details"
    /\ LET batch == SubSeq(xSigs, xI + 1, Min(xI + TX_BATCH, Len(xSigs)))
       IN  \E results \in [1..Len(batch) -> DetailResults] :
             /\ xSettled' = xSettled \o results
             /\ xInfos' = xInfos \o TxRecords(results, batch)
    /\ xpc' = IF xI + TX_BATCH < Len(xSigs) THEN "sleep" ELSE "returned"
    /\ UNCHANGED <<xSigs, xI>>
    /\ UNCHANGED notTx

\* sleep(300) is over: the next batch is issued (lines 445, 470)
TxSleepDone ==
    /\ xpc = "sleep"
    /\ xI' = xI + TX_BATCH
    /\ xpc' = "details"
    /\ UNCHANGED <<xSigs, xSettled, xInfos>>
    /\ UNCHANGED notTx

TxNext ==
    \/ TxStart
    \/ TxListReply
    \/ TxListFails
    \/ TxDetailsSettled
    \/ TxSleepDone

TxSpec == Init /\ [][TxNext]_vars

\* the detail fetch rejected or returned nothing
DetailFailed(result) == result.status = "rejected" \/ result.value = <<>>

\* C21: when the signature listing succeeds, fetchTransactions returns one
\* record per listed signature, in listing order, at most K of them (here
\* TX_LIMIT); a signature whose detail fetch rejects or returns nothing is
\* kept as a record of type unknown with fee 0 carrying only its signature,
\* timestamp and status; a detail failure never fails the resolver
C21_OneRecordPerSignature ==
    /\ xpc = "rejected" => xSettled = <<>>
    /\ xpc = "returned" =>
          /\ Len(xInfos) = Len(xSigs)
          /\ Len(xInfos) <= TX_LIMIT
          /\ Len(xSettled) = Len(xSigs)
          /\ \A i \in 1..Len(xSigs) :
                /\ xInfos[i].signature = xSigs[i].signature
                /\ DetailFailed(xSettled[i]) =>
                      /\ DOMAIN xInfos[i]
                           = {"signature", "timestamp", "type", "status", "fee"}
                      /\ xInfos[i].type = "unknown"
                      /\ xInfos[i].fee = SolOf(0)
                      /\ xInfos[i].timestamp = Nullable(xSigs[i], "blockTime")
                      /\ xInfos[i].status
                           = IF "err" \in DOMAIN xSigs[i] THEN "failed" ELSE "success"

\* a full listing returned in two batches: the detail of the newest
\* signature rejected, that of the second returned nothing, a later one parsed
C21_Witness ==
    /\ xpc = "returned"
    /\ Len(xSigs) = TX_LIMIT
    /\ xI > 0
    /\ xSettled[1].status = "rejected"
    /\ xSettled[2] = [status |-> "fulfilled", value |-> <<>>]
    /\ ~DetailFailed(xSettled[Len(xSettled)])
    /\ xInfos[Len(xInfos)].type = "transfer"

--------------------------------------------------------------------------
(* fetchBalanceHistory (lines 634-692) *)

HIST_LIMIT == 3          \* { limit: 10 } of line 643, scaled down
HIST_BATCH == 2          \* BATCH of line 649, scaled down from 3

\* the current balances fetchWalletData passes (line 746)
HistBalances == { 0, 2 * LAMPORTS_PER_SOL }

HistSigLists == { SubSeq(AllSigs, 1, n) : n \in 0..HIST_LIMIT }

\* parsed transactions: two that involve the wallet with different
\* pre-balances, one of other accounts, one of the wallet without meta
HistTxs ==
    { [keys |-> <<Wallet, "K">>,
       meta |-> << [fee |-> 5000,
                    preBalances |-> <<LAMPORTS_PER_SOL, 0>>,
                    postBalances |-> <<2 * LAMPORTS_PER_SOL, 0>>] >>],
      [keys |-> <<"K", Wallet>>,
       meta |-> << [fee |-> 5000,
                    preBalances |-> <<9, 5000>>,
                    postBalances |-> <<4, LAMPORTS_PER_SOL>>] >>],
      [keys |-> <<"K", "J">>,
       meta |-> << [fee |-> 5000,
                    preBalances |-> <<7, 7>>,
                    postBalances |-> <<7, 7>>] >>],
      [keys |-> <<"K", Wallet>>, meta |-> <<>>] }

HistDetailResults ==
    { [status |-> "fulfilled", value |-> <<tx>>] : tx \in HistTxs }
      \cup { [status |-> "fulfilled", value |-> <<>>], [status |-> "rejected"] }

\* tx.meta?.preBalances?.[walletIdx] ?? runningBalance (line 677)
PreBalance(tx, walletIdx, runningBalance) ==
    IF /\ tx.meta # <<>>
       /\ "preBalances" \in DOMAIN tx.meta[1]
       /\ walletIdx + 1 <= Len(tx.meta[1].preBalances)
    THEN tx.meta[1].preBalances[walletIdx + 1]
    ELSE runningBalance

\* lines 666-683: the points pushed after the first, newest first
RECURSIVE Walk(_, _, _)
Walk(parsed, walletAddress, runningBalance) ==
    IF parsed = <<>> THEN <<>>
    ELSE LET result == Head(parsed)
         IN  IF result.status # "fulfilled" \/ result.value = <<>>
             THEN Walk(Tail(parsed), walletAddress, runningBalance)
             ELSE LET tx == result.value[1]
                      walletIdx == FindIndex(tx.keys, walletAddress)
                      pre == PreBalance(tx, walletIdx, runningBalance)
                  IN  IF walletIdx >= 0
                      THEN <<SolOf(pre)>> \o Walk(Tail(parsed), walletAddress, pre)
                      ELSE Walk(Tail(parsed), walletAddress, runningBalance)

Reverse(s) == [i \in 1..Len(s) |-> s[Len(s) + 1 - i]]

\* the points are returned in the order they were pushed
BalanceSeries_NotReversed(parsed, walletAddress, currentBalanceLamports) ==
    <<SolOf(currentBalanceLamports)>> \o Walk(parsed, walletAddress, currentBalanceLamports)

\* lines 662-687
BalanceSeries(parsed, walletAddress, currentBalanceLamports) ==
    Reverse(<<SolOf(currentBalanceLamports)>>
              \o Walk(parsed, walletAddress, currentBalanceLamports))

\* fetchBalanceHistory(address, currentBalanceLamports) is called: the
\* signature listing is issued
HistStart ==
    /\ hpc = "idle"
    /\ \E b \in HistBalances : hBalance' = b
    /\ hpc' = "listing"
    /\ UNCHANGED <<hSigs, hI, hParsed, hFail, hOut>>
    /\ UNCHANGED notHist

\* the listing is answered (lines 643-656)
HistListReply ==
    /\ hpc = "listing"
    /\ \E sigs \in HistSigLists :
        /\ hSigs' = sigs
        /\ IF sigs = <<>>
           THEN hpc' = "returned" /\ hOut' = <<SolOf(hBalance)>>
           ELSE hpc' = "details" /\ hOut' = hOut
    /\ UNCHANGED <<hBalance, hI, hParsed, hFail>>
    /\ UNCHANGED notHist

\* the listing fails and the failure propagates to the caller
HistListFails_Rejects ==
    /\ hpc = "listing"
    /\ hFail' = hFail \cup {"listing"}
    /\ hpc' = "rejected"
    /\ UNCHANGED <<hBalance, hSigs, hI, hParsed, hOut>>
    /\ UNCHANGED notHist

\* the listing fails: the catch of lines 688-691 returns the single point
HistListFails ==
    /\ hpc = "listing"
    /\ hFail' = hFail \cup {"listing"}
    /\ hOut' = <<SolOf(hBalance)>>
    /\ hpc' = "returned"
    /\ UNCHANGED <<hBalance, hSigs, hI, hParsed>>
    /\ UNCHANGED notHist

\* Promise.allSettled of the batch in flight settles; after the last batch
\* the series is built and returned (lines 650-687)
HistDetailsSettled ==
    /\ hpc = "details"
    /\ LET batch == SubSeq(hSigs, hI + 1, Min(hI + HIST_BATCH, Len(hSigs)))
       IN  \E results \in [1..Len(batch) -> HistDetailResults] :
             /\ hParsed' = hParsed \o results
             /\ IF hI + HIST_BATCH < Len(hSigs)
                THEN hpc' = "sleep" /\ hOut' = hOut
                ELSE /\ hpc' = "returned"
                     /\ hOut' = BalanceSeries(hParsed \o results, Wallet, hBalance)
    /\ UNCHANGED <<hBalance, hSigs, hI, hFail>>
    /\ UNCHANGED notHist

\* sleep(300) is over: the next batch is issued (lines 650, 658)
HistSleepDone ==
    /\ hpc = "sleep"
    /\ hI' = hI + HIST_BATCH
    /\ hpc' = "details"
    /\ UNCHANGED <<hBalance, hSigs, hParsed, hFail, hOut>>
    /\ UNCHANGED notHist

HistNext ==
    \/ HistStart
    \/ HistListReply
    \/ HistListFails
    \/ HistDetailsSettled
    \/ HistSleepDone

HistSpec == Init /\ [][HistNext]_vars

\* a settled detail fetch that gave a transaction involving the wallet
Involving(result) ==
    /\ result.status = "fulfilled"
    /\ result.value # <<>>
    /\ FindIndex(result.value[1].keys, Wallet) >= 0

\* the successfully parsed transactions that involve the wallet, newest first
InvolvingTxs == SelectSeq(hParsed, Involving)

\* C22: the series returned by fetchBalanceHistory is in oldest-to-newest
\* order and its last element equals the supplied current balance: the
\* element k places before the last is the pre-transaction balance of the
\* k-th newest successfully parsed transaction that involves the tracked
\* account (the running balance stands in where the transaction records no
\* pre-balance), so n such transactions give n + 1 points
C22_OldestFirstEndingAtCurrent ==
    hpc = "returned" =>
        LET n == Len(hOut)
        IN  /\ n = Len(InvolvingTxs) + 1
            /\ hOut[n] = SolOf(hBalance)
            /\ \A k \in 1..Len(InvolvingTxs) :
                  LET tx == InvolvingTxs[k].value[1]
                  IN  hOut[n - k]
                        = SolOf(PreBalance(tx, FindIndex(tx.keys, Wallet),
                                           hOut[n - k + 1].lamports))

\* three parsed transactions, the two outer ones involve the wallet with
\* different recorded pre-balances: three points, oldest pre-balance first
C22_Witness ==
    /\ hpc = "returned"
    /\ Len(hParsed) = 3
    /\ Len(InvolvingTxs) = 2
    /\ Involving(hParsed[1]) /\ Involving(hParsed[3])
    /\ hOut = << SolOf(5000), SolOf(LAMPORTS_PER_SOL), SolOf(2 * LAMPORTS_PER_SOL) >>

\* a detail fetch of the call rejected
DetailRejected == \E i \in 1..Len(hParsed) : hParsed[i].status = "rejected"

\* C23 as stated: fetchBalanceHistory never rejects, and if no transactions
\* exist or any fetch step fails (the signature listing or any
\* transaction-detail fetch) it returns the single-point series containing
\* just the current balance
C23_AnyFailureGivesSinglePoint ==
    /\ hpc # "rejected"
    /\ hpc = "returned" /\ (hSigs = <<>> \/ hFail # {} \/ DetailRejected)
         => hOut = <<SolOf(hBalance)>>

\* C23: fetchBalanceHistory never rejects; it returns the single-point
\* series containing just the current balance exactly when no successfully
\* parsed transaction involves the account, in particular when no
\* transactions exist or the signature listing fails; a rejected detail
\* fetch only omits the point of its own transaction
C23_SinglePointIffNothingParsed ==
    /\ hpc # "rejected"
    /\ hpc = "returned" =>
          /\ hOut # <<>>
          /\ (hOut = <<SolOf(hBalance)>>) <=> (InvolvingTxs = <<>>)
          /\ (hSigs = <<>> \/ hFail # {}) => InvolvingTxs = <<>>
          /\ hOut = BalanceSeries(SelectSeq(hParsed, Involving), Wallet, hBalance)

\* a detail fetch rejected and the series still has the point of another
\* transaction
C23_Witness ==
    /\ hpc = "returned"
    /\ DetailRejected
    /\ Len(hOut) = 2
    /\ hOut[1] # hOut[2]

--------------------------------------------------------------------------
(* fetchStakedTokens (lines 536-599) *)

SHARE_PRICE_ONE == 1000000000   \* sharePrice = 1.0 in its raw 1e9 scale

\* principalRaw read from the first stake account found (line 554); <<>> is
\* a scan that found no account
PrincipalRaws == { 0, 1, 5000000, 12500000, 1000000000 }
StakeScanReplies == { <<>> } \cup { <<raw>> : raw \in PrincipalRaws }

\* sharePriceRaw read from the first config account found (line 566)
ConfigScanReplies == { <<>>, <<SHARE_PRICE_ONE>>, <<1050000000>>, <<2000000000>> }

\* dexData.get(SKR_TOKEN_MINT): no entry, or an entry with its priceUsd
SkrDexReplies == { <<>>, <<[priceUsd |-> 0]>>, <<[priceUsd |-> 2]>>, <<[priceUsd |-> 3]>> }

\* principal * sharePrice = (principalRaw / 1e6) * (sharePriceRaw / 1e9),
\* kept as its two raw factors
StakedWithRewards(principalRaw, sharePriceRaw) ==
    [principalRaw |-> principalRaw, sharePriceRaw |-> sharePriceRaw]

\* lines 583-590
StakedToken(principalRaw, sharePriceRaw, priceUsd) ==
    [symbol |-> "SKR",
     stakedAmount |-> StakedWithRewards(principalRaw, sharePriceRaw)]
    @@ (IF priceUsd # <<>>
        THEN [priceUsd |-> priceUsd[1],
              valueUsd |-> [priceUsd |-> priceUsd[1],
                            staked |-> StakedWithRewards(principalRaw, sharePriceRaw)]]
        ELSE [x \in {} |-> 0])

\* fetchStakedTokens(address) is called: the stake-account scan is issued
StakeStart ==
    /\ spc = "idle"
    /\ spc' = "scan"
    /\ UNCHANGED <<sPrincipal, sSharePrice, sPriceUsd, sFail, sOut>>
    /\ UNCHANGED notStake

\* the stake scan is answered: without an account the empty list is
\* returned, otherwise the config scan is issued (lines 545-563, 598)
StakeScanReply ==
    /\ spc = "scan"
    /\ \E reply \in StakeScanReplies :
        IF reply = <<>>
        THEN /\ spc' = "returned"
             /\ sFail' = sFail \cup {"no-stake-account"}
             /\ UNCHANGED <<sPrincipal, sSharePrice>>
        ELSE /\ spc' = "config"
             /\ sPrincipal' = reply[1]
             /\ sSharePrice' = SHARE_PRICE_ONE
             /\ sFail' = sFail
    /\ UNCHANGED <<sPriceUsd, sOut>>
    /\ UNCHANGED notStake

\* the stake scan rejects: the outer catch of lines 594-596, then line 598
StakeScanFails ==
    /\ spc = "scan"
    /\ spc' = "returned"
    /\ sFail' = sFail \cup {"stake-scan"}
    /\ UNCHANGED <<sPrincipal, sSharePrice, sPriceUsd, sOut>>
    /\ UNCHANGED notStake

\* the config scan is answered, the price lookup is issued (lines 561-578)
StakeConfigReply ==
    /\ spc = "config"
    /\ \E reply \in ConfigScanReplies :
        IF reply = <<>>
        THEN sSharePrice' = sSharePrice /\ sFail' = sFail \cup {"config-not-found"}
        ELSE sSharePrice' = reply[1] /\ sFail' = sFail
    /\ spc' = "price"
    /\ UNCHANGED <<sPrincipal, sPriceUsd, sOut>>
    /\ UNCHANGED notStake

\* the config scan rejects and its failure reaches the outer catch
StakeConfigFails_Abandons ==
    /\ spc = "config"
    /\ sFail' = sFail \cup {"config-scan"}
    /\ spc' = "returned"
    /\ UNCHANGED <<sPrincipal, sSharePrice, sPriceUsd, sOut>>
    /\ UNCHANGED notStake

\* the config scan rejects: the inner catch of lines 569-571 keeps 1.0
StakeConfigFails ==
    /\ spc = "config"
    /\ sFail' = sFail \cup {"config-scan"}
    /\ spc' = "price"
    /\ UNCHANGED <<sPrincipal, sSharePrice, sPriceUsd, sOut>>
    /\ UNCHANGED notStake

\* the price lookup returns its map; the position is pushed and returned
\* (lines 578-598)
StakePriceReply ==
    /\ spc = "price"
    /\ \E reply \in SkrDexReplies :
        LET priceUsd == IF reply # <<>> /\ reply[1].priceUsd # 0
                        THEN <<reply[1].priceUsd>> ELSE <<>>
        IN  /\ sPriceUsd' = priceUsd
            /\ sFail' = IF reply = <<>> THEN sFail \cup {"price-lookup"} ELSE sFail
            /\ sOut' = <<StakedToken(sPrincipal, sSharePrice, priceUsd)>>
    /\ spc' = "returned"
    /\ UNCHANGED <<sPrincipal, sSharePrice>>
    /\ UNCHANGED notStake

StakeNext ==
    \/ StakeStart
    \/ StakeScanReply
    \/ StakeScanFails
    \/ StakeConfigReply
    \/ StakeConfigFails
    \/ StakePriceReply

StakeSpec == Init /\ [][StakeNext]_vars

\* C24 as stated: fetchStakedTokens never rejects, and any failure at any
\* step gives the empty list: no stake account, share-vault config not
\* found or its scan failing, or the price lookup failing
C24_AnyFailureGivesEmptyList ==
    /\ spc # "rejected"
    /\ spc = "returned" /\ sFail # {} => sOut = <<>>

\* C24: fetchStakedTokens never rejects; the returned list is empty exactly
\* when no stake account is found or the stake scan fails; when the config
\* account is not found or its scan fails the position is reported with
\* share price 1.0, and when the price lookup gives no price the position
\* is reported without priceUsd and valueUsd
C24_EmptyOnlyWithoutStakeAccount ==
    /\ spc # "rejected"
    /\ spc = "returned" =>
          /\ (sOut = <<>>) <=> (sFail \cap {"no-stake-account", "stake-scan"} # {})
          /\ sOut # <<>> =>
                /\ Len(sOut) = 1
                /\ sOut[1].stakedAmount.principalRaw = sPrincipal
                /\ sFail \cap {"config-not-found", "config-scan"} # {}
                      => sOut[1].stakedAmount.sharePriceRaw = SHARE_PRICE_ONE
                /\ "price-lookup" \in sFail
                      => DOMAIN sOut[1] = {"symbol", "stakedAmount"}
                /\ ("priceUsd" \in DOMAIN sOut[1]) <=> ("valueUsd" \in DOMAIN sOut[1])

\* the config scan rejected and the price lookup gave nothing: the position
\* is reported at share price 1.0 without a value
C24_Witness ==
    /\ spc = "returned"
    /\ {"config-scan", "price-lookup"} \subseteq sFail
    /\ sOut = <<StakedToken(12500000, SHARE_PRICE_ONE, <<>>)>>

--------------------------------------------------------------------------
(* withTimeout in Phase 2 and Phase 3 of fetchWalletData *)

\* the labels fetchWalletData passes to withTimeout (lines 719-752)
TimeoutLabels ==
    {"[Phase1]", "[Tokens]", "[NFTs]", "[Transactions]", "[BalanceHistory]", "[Staking]"}

\* wrapper k has settled in this run
Settled(k) == w[k].status \in {"fulfilled", "rejected", "timeout"}

\* the operation wrapped by k produces its outcome in this step
OpSettles(k) == op[k] = "inflight" /\ op'[k] \in {"fulfilled", "rejected"}

\* C25: withTimeout settles exactly once, with whichever comes first of the
\* operation's fulfilment, its rejection and the timer; when the timer fires
\* first the outcome is a timeout error that differs from every
\* provider-reported failure, and a result the abandoned operation produces
\* later is discarded: it never appears in the snapshot of that run and
\* never changes the outcome already delivered
C25_SettlesOnce ==
    /\ [](/\ \A l \in TimeoutLabels :
               /\ TimeoutError(l) \notin RpcErrors
               /\ Includes(TimeoutError(l), <<"Timed", "out">>)
          /\ \A e \in RpcErrors : ~Includes(e, <<"Timed", "out">>)
          /\ \A k \in Subs :
               /\ w[k].status = "fulfilled" => op[k] = "fulfilled"
               /\ w[k].status = "rejected" => op[k] = "rejected"
               /\ w[k].status = "timeout" /\ pc = "Assembled"
                     => SliceOf(snapshot[1], k) = <<>>
          /\ p2 = "timeout" => tokens = <<>>)
    /\ [][ /\ \A k \in Subs :
                /\ Settled(k) /\ runs' = runs => w'[k] = w[k]
                /\ w[k].status = "pending" /\ OpSettles(k)
                      => w'[k].status = op'[k]
                /\ w[k].status = "timeout" /\ OpSettles(k)
                      => /\ w' = w
                         /\ UNCHANGED <<pc, snapshot, error, delivered>>
           /\ p2 = "timeout" /\ tokState' # tokState /\ runs' = runs
                 => UNCHANGED <<p2, tokens>> ]_vars

\* the staking wrapper timed out, its operation fulfilled afterwards, and
\* the snapshot of the run has no staked position; the token wrapper timed
\* out too and the late token list is not in the snapshot
C25_Witness ==
    /\ pc = "Assembled"
    /\ w["staking"].status = "timeout"
    /\ op["staking"] = "fulfilled"
    /\ snapshot[1].stakedTokens = <<>>
    /\ p2 = "timeout"
    /\ tokState = "fulfilled"
    /\ snapshot[1].tokens = <<>>

--------------------------------------------------------------------------
(* The token-program scans of fetchTokenBalances within a run *)

\* index of the last "start" of tLog, 0 if there is none
LastStart ==
    IF \E i \in 1..Len(tLog) : tLog[i] = "start"
    THEN CHOOSE i \in 1..Len(tLog) :
            tLog[i] = "start" /\ \A j \in (i + 1)..Len(tLog) : tLog[j] # "start"
    ELSE 0

\* what the invocation of fetchTokenBalances in progress has logged
Invocation == SubSeq(tLog, LastStart + 1, Len(tLog))

\* the scan `issue` is in flight after the events of log
InFlight(log, issue, ok, err) ==
    \E i \in 1..Len(log) :
        /\ log[i] = issue
        /\ \A j \in (i + 1)..Len(log) : log[j] \notin {ok, err}

Count(log, e) == Cardinality({i \in 1..Len(log) : log[i] = e})

\* C26: within one invocation of fetchTokenBalances the two token-program
\* scans are strictly sequential: the Token-2022 scan is issued only after
\* the legacy scan, with all of its retries, has succeeded and the pacing
\* delay has elapsed; the two scans are never in flight at the same time;
\* and if the legacy scan fails the Token-2022 scan is never issued
C26_ScansSequential ==
    LET log == Invocation
    IN  /\ \A i \in 1..Len(log) :
              log[i] = "t2022" =>
                 \E a \in 1..(i - 1) : \E b \in (a + 1)..(i - 1) :
                    /\ log[a] = "legacy-ok"
                    /\ log[b] = "pace"
                    /\ \A j \in (a + 1)..Len(log) :
                          log[j] \notin {"legacy", "legacy-ok", "legacy-err"}
        /\ ~(/\ InFlight(log, "legacy", "legacy-ok", "legacy-err")
             /\ InFlight(log, "t2022", "t2022-ok", "t2022-err"))
        /\ "scan1" \in tFail => Count(log, "t2022") = 0
        /\ tpc \in {"scan1", "backoff1", "pace"} => Count(log, "t2022") = 0

\* the legacy scan succeeded at its third attempt, the pacing delay elapsed
\* and the Token-2022 scan was issued twice
C26_Witness ==
    /\ Invocation = << "legacy", "legacy-err", "legacy", "legacy-err", "legacy",
                       "legacy-ok", "pace", "t2022", "t2022-err", "t2022" >>
    /\ tpc = "scan2"

\* C28: during one run of fetchWalletData each token-program scan (legacy
\* and Token-2022) is invoked at most 3 times in total, whatever sequence of
\* transient failures the provider returns
C28_AtMostThreeScans ==
    /\ Count(tLog, "legacy") <= DEFAULT_MAX_RETRIES + 1
    /\ Count(tLog, "t2022") <= DEFAULT_MAX_RETRIES + 1

--------------------------------------------------------------------------
(* The age of the entries fetchDexScreenerData returns *)

\* sequential calls, the time each entry was stored being recorded
DexAgeInit ==
    OrchInit /\ RetryIdle /\ DexStart /\ dStoredAt = EmptyMap /\ OthersIdle

DexAgeSpec == DexAgeInit /\ [][DexNext]_vars

\* the call of c issued a provider request that named m (lines 152-156:
\* once anything is uncached every identifier of the call is requested)
RequestedBy(c, m) == dUncached[c] # <<>> /\ m \in Range(dMints[c])

\* C27: the price cache honours its 5-minute TTL per entry:
\* fetchDexScreenerData never returns, without having issued a provider
\* request for that identifier in the same call, an entry that was stored
\* more than DEX_CACHE_TTL earlier, under any sequence of calls and any
\* pattern of batch failures
C27_NoStaleEntryReturned ==
    \A c \in DexCallers :
        dpc[c] = "done" =>
            \A m \in DOMAIN dResult[c] :
                \/ RequestedBy(c, m)
                \/ dNow[c] - dStoredAt[m] <= DEX_CACHE_TTL

--------------------------------------------------------------------------
(* Overlapping calls of fetchDexScreenerData: the price lookup of
   fetchStakedTokens (line 578) while a fetchTokenBalances abandoned by its
   deadline is still running (line 307), or two runs of fetchWalletData *)

MaxRaceCalls == 2
RaceMintLists == { <<"m1">>, <<"m2", "m1">> }

\* a call by c while the other caller's call may be in progress
DexRaceCall(c) ==
    /\ dCalls < MaxRaceCalls
    /\ DexCall(c)
    /\ dMints'[c] \in RaceMintLists

DexRaceNext ==
    \/ DexClockTick
    \/ \E c \in DexCallers : DexRaceCall(c)
    \/ \E c \in DexCallers : DexBatchReply(c)
    \/ \E c \in DexCallers : DexBatchBadShape(c)
    \/ \E c \in DexCallers : DexBatchThrows(c)

DexRaceSpec == Init /\ [][DexRaceNext]_vars

\* C29: under every interleaving of concurrent fetchDexScreenerData calls
\* the shared last-refreshed timestamp never decreases, and each cache entry
\* holds the value written by the most recently completed provider response
\* for its identifier
C29_TimestampNeverDecreases ==
    [][ /\ dexCacheTimestamp' >= dexCacheTimestamp
        /\ \A c \in DexCallers :
              Len(dLog'[c]) = Len(dLog[c]) + 1 /\ dLog'[c][Len(dLog'[c])] = "array"
                 => \A m \in DOMAIN BestPair(dPairs'[c], EmptyMap) :
                       dexCache'[m] = ToToken(BestPair(dPairs'[c], EmptyMap)[m]) ]_vars

--------------------------------------------------------------------------
(* The balance history of the snapshot *)

Last(seq) == seq[Len(seq)]

====
